---- MODULE Spec2Model ----
(***************************************************************************)
(* Model of the grading orchestrator of python_course: Grader              *)
(* (grader/engine.py) with its DatabaseHandler (grader/database.py), fed   *)
(* by the main loop (main.py) with the submissions GmailExchanger          *)
(* (exchanger/engine.py) extracts from unread messages.                    *)
(*                                                                         *)
(* Strings whose letter case matters (emails, lesson and notebook names)   *)
(* are sequences of one-character strings.  Timestamps are integers in     *)
(* milliseconds, the resolution of Gmail's internalDate.                   *)
(***************************************************************************)
EXTENDS Integers, Sequences, FiniteSets, TLC

\* ---------------------------------------------------------------- bounds
\* Number of grade_submission calls in one behaviour.
MaxSubmissions == 3
\* Submission timestamps lie in the seconds 0..MaxSec.
MaxSec == 1
\* Number of unread messages one fetch_new_submissions may return.
MaxBatch == 2
\* Number of nbgrader cells of a notebook handed to _is_notebook_valid alone.
MaxCells == 3
\* Number of tasks of a source notebook handed to _get_submission_grades.
MaxTasks == 3
\* Cells of a source notebook given to _get_lesson_tasks on its own.
MaxSource == 5
\* Seconds of the clock while calls of a slowed function are followed.
MaxClock == 12
\* Submissions of one pair in a batch whose order is varied.
MaxOrdered == 3
\* Different contents a published file may have.
MaxVersions == 2

\* ------------------------------------------------------- program constants
\* internalDate is in milliseconds: int(msg['internalDate']) / 1000.
MsPerSec == 1000

\* Optional values: None is the empty sequence, a present value x is <<x>>.
None == << >>
Some(x) == <<x>>

\* A call that may raise gives Raised or Returned(value).
Raised == << >>
Returned(x) == <<x>>

\* ------------------------------------------------------------- GradeStatus
SUCCESS == "SUCCESS"
ERROR_USERNAME_IS_ABSENT == "ERROR_USERNAME_IS_ABSENT"
ERROR_NO_CORRECT_FILES == "ERROR_NO_CORRECT_FILES"
ERROR_LESSON_IS_ABSENT == "ERROR_LESSON_IS_ABSENT"
ERROR_NOTEBOOK_CORRUPTED == "ERROR_NOTEBOOK_CORRUPTED"
ERROR_GRADER_FAILED == "ERROR_GRADER_FAILED"
SKIPPED == "SKIPPED"

\* ------------------------------------------------------------ str helpers
\* Mutant: the letters are compared as written.
lower_as_written(s) == s

\* str.lower() / SQL lower() on the letters the model uses.
lower(s) ==
    [i \in DOMAIN s |->
        CASE s[i] = "T" -> "t"
          [] s[i] = "R" -> "r"
          [] s[i] = "L" -> "l"
          [] s[i] = "O" -> "o"
          [] s[i] = "E" -> "e"
          [] s[i] = "N" -> "n"
          [] OTHER -> s[i]]

\* Mutant: surrounding blanks are kept.
strip_nothing(s) == s

\* str.strip() for the blank
RECURSIVE strip(_)
strip(s) ==
    IF s = << >> THEN s
    ELSE IF Head(s) = " " THEN strip(Tail(s))
    ELSE IF s[Len(s)] = " " THEN strip(SubSeq(s, 1, Len(s) - 1))
    ELSE s

\* f"{notebook_}.ipynb": str(None) is "None".
ipynb(notebook_) ==
    (IF notebook_ = None THEN <<"N", "o", "n", "e">> ELSE notebook_[1]) \o <<".ipynb">>

\* ------------------------------------------------------- directory store
\* Table "student": add_user stores the email normalised to lower case; the
\* names are optional, and a user added without them has NULL columns,
\* written "" here (both are false for Python's `not`).
student ==
    { [id |-> "mosby_ted", email |-> <<"t", "m">>,
       first_name |-> "Ted", last_name |-> "Mosby"],
      [id |-> "1f0c", email |-> <<"r", "r">>,
       first_name |-> "", last_name |-> ""] }

\* Table "assignment" with the notebooks the gradebook registers for each
\* lesson; add_lesson stores the name as given (stripped).
assignment ==
    { [name |-> <<"L", "o">>, notebooks |-> << <<"L", "o">> >>],
      [name |-> <<"E", "m">>, notebooks |-> << >>] }

\* Grade identifiers of the source cells the gradebook holds for a notebook.
source_cells(notebook_name, lesson_name) ==
    IF lesson_name = <<"L", "o">> /\ notebook_name = <<"L", "o">>
    THEN <<"c1", "c2">>
    ELSE << >>

\* source/<lesson>/<notebook>.ipynb, the cells that carry nbgrader metadata:
\* a TODO markdown cell names a task, a graded code cell tests it.
source_notebook(lesson_name, notebook_name) ==
    << [cell_type |-> "markdown", todo |-> TRUE, name |-> "Task 1",
        grade |-> FALSE, grade_id |-> "m1"],
       [cell_type |-> "code", todo |-> FALSE, name |-> "",
        grade |-> FALSE, grade_id |-> "c1"],
       [cell_type |-> "code", todo |-> FALSE, name |-> "",
        grade |-> TRUE, grade_id |-> "c2"] >>

UserIds == {u.id : u \in student}
LessonNames == {l.name : l \in assignment}
Pairs == UserIds \X LessonNames

\* ------------------------------------------------------------ input space
Emails == { <<"t", "m">>, <<"T", "m">>, <<"z", "z">> }
SubjectLessons == { <<"L", "o">>, <<"l", "O">>, <<"E", "m">>, <<"N", "o">> }
SubSecondParts == {0, 500}
Timestamps == {sec * MsPerSec + ms : sec \in 0..MaxSec, ms \in SubSecondParts}

\* Content of a submitted file: a notebook with the grade ids of its nbgrader
\* cells, or text json.load cannot parse.
Notebook(cells) == [kind |-> "notebook", cells |-> cells]
Malformed == [kind |-> "malformed", cells |-> << >>]
\* JSON text that json.load parses but that is no notebook: not an object,
\* "cells" that is no list, or a cell without "metadata".
NotANotebook == [kind |-> "json", cells |-> << >>]

\* A directory is a function from file names to contents.
EmptyDir == [n \in {} |-> Malformed]
OneFile(name, content) == [n \in {name} |-> content]

\* Attachment trees _extract_attachments may write.
StagedDirs ==
    { EmptyDir,
      OneFile(ipynb(Some(<<"L", "o">>)), Notebook(<<"c1", "c2">>)),
      OneFile(ipynb(Some(<<"L", "o">>)), Notebook(<<"c1">>)),
      OneFile(ipynb(Some(<<"L", "o">>)), Malformed),
      OneFile(ipynb(None), Notebook(<<"c1", "c2">>)) }

\* Timestamps without sub-second part.
WholeSeconds == {sec * MsPerSec : sec \in 0..MaxSec}

\* A further attachment next to the notebook.
WithData(dir) ==
    [n \in DOMAIN dir \cup {<<"d", ".csv">>} |->
        IF n \in DOMAIN dir THEN dir[n] ELSE Malformed]

\* Attachment trees with a file Lo.ipynb: the valid notebook alone and with
\* a data file, text that is not JSON, JSON that is no notebook.
LessonDirs ==
    { OneFile(ipynb(Some(<<"L", "o">>)), Notebook(<<"c1", "c2">>)),
      WithData(OneFile(ipynb(Some(<<"L", "o">>)), Notebook(<<"c1", "c2">>))),
      OneFile(ipynb(Some(<<"L", "o">>)), Malformed),
      OneFile(ipynb(Some(<<"L", "o">>)), NotANotebook) }


VARIABLES
    pc,              \* main loop position: idle, fetched, returned, raised
    calls,           \* grade_submission calls made so far
    next_id,         \* id of the next new Gmail message
    message,         \* the unread message being processed (None when idle)
    submission,      \* the Submission in the loop variable (None when idle)
    downloaded,      \* downloaded/<submission_id>: id -> directory
    submitted,       \* submitted/<user>/<lesson>: pair -> None | Some(directory)
    gradebook,       \* backend submission records: pair -> None | Some(scores)
    submission_logs, \* table "submission_logs", in insertion order
    grade_result,    \* the GradeResult the last call returned (None if none)
    evaluated,       \* the admission checks the last call evaluated, in order
    invoked,         \* the grading steps the last call took, in order
    new_submissions, \* the submissions of the fetched batch still to process
    feedback,        \* the Feedback sent for the current submission (or None)
    frame            \* a helper called on its own: its arguments and result

vars == <<pc, calls, next_id, message, submission, downloaded, submitted,
          gradebook, submission_logs, grade_result, evaluated, invoked,
          new_submissions, feedback, frame>>

\* ------------------------------------------------------- DatabaseHandler
\* Mutant: the WHERE clause is lost and the first row is taken.
get_user_info_any(email) == student

\* The rows whose lower(email) equals email.lower().
get_user_info(email) ==
    {u \in student : lower(u.email) = lower(email)}

\* Mutant: the WHERE clause is lost and the first row is taken.
get_lesson_info_any(lesson_name) == assignment

\* The rows whose lower(name) equals lesson_name.lower().
get_lesson_info(lesson_name) ==
    {l \in assignment : lower(l.name) = lower(lesson_name)}

\* connection.execute(...).first()
first(rows) == CHOOSE r \in rows : TRUE

\* ------------------------------------------------------ Grader helpers
\* names[0] if names else None
_get_notebook_name(lesson_name) ==
    LET names == (first({l \in assignment : l.name = lesson_name})).notebooks
    IN  IF names # << >> THEN Some(names[1]) ELSE None

\* timestamp.strftime(DATE_FORMAT) with DATE_FORMAT = "%Y-%m-%d %H:%M:%S %Z":
\* the text holds the whole seconds and the zone name, no fraction.
strftime(timestamp) == [seconds |-> timestamp \div MsPerSec, tz |-> "UTC"]

\* Mutant: the seconds of the marker are taken for milliseconds.
parse_seconds_as_ms(time_file) == time_file.seconds

\* dateutil parser.parse of the marker's text
parse(time_file) == time_file.seconds * MsPerSec

\* Mutant: a timestamp equal to the marker's counts as newer.
_is_submission_newer_or_equal(pair, timestamp) ==
    IF submitted[pair] = None
    THEN TRUE
    ELSE timestamp >= parse(submitted[pair][1].timestamp_txt)

\* True when submitted/<user>/<lesson>/timestamp.txt is absent or older.
_is_submission_newer(pair, timestamp) ==
    IF submitted[pair] = None
    THEN TRUE
    ELSE timestamp > parse(submitted[pair][1].timestamp_txt)

\* Mutant: the identifiers are compared as sets.
Counter_of_set(list) ==
    [x \in {list[i] : i \in DOMAIN list} |-> 1]

\* collections.Counter of a list
Counter(list) ==
    [x \in {list[i] : i \in DOMAIN list} |->
        Cardinality({i \in DOMAIN list : list[i] = x})]

\* open() raises for a missing file; json.load fails on malformed text
\* (JSONDecodeError, UnicodeDecodeError) and the notebook is invalid; parsed
\* JSON that is no notebook raises AttributeError, KeyError or TypeError,
\* which are not caught; find_notebook raises for an unknown notebook;
\* otherwise the grade ids of the nbgrader cells are compared with the
\* source cells as multisets.
_is_notebook_valid(dir, lesson_name, notebook_) ==
    IF ipynb(notebook_) \notin DOMAIN dir
    THEN Raised
    ELSE IF dir[ipynb(notebook_)].kind = "malformed"
    THEN Returned(FALSE)
    ELSE IF dir[ipynb(notebook_)].kind = "json"
    THEN Raised
    ELSE IF notebook_ = None
    THEN Raised
    ELSE Returned(Counter(dir[ipynb(notebook_)].cells)
                      = Counter(source_cells(notebook_[1], lesson_name)))

\* Task(name=...) with the dataclass defaults
Task(name) == [name |-> name, max_score |-> 0, score |-> 0, test_cell |-> None]

\* The loop of _get_lesson_tasks.  `task` refers to the Task object of the
\* last TODO cell (an index of `heap`), `tasks` is the list of references.
RECURSIVE lesson_tasks_loop(_, _, _, _, _)
lesson_tasks_loop(cells, i, tasks, task, heap) ==
    IF i > Len(cells)
    THEN [j \in DOMAIN tasks |-> heap[tasks[j]]]
    ELSE LET cell == cells[i]
         IN  IF cell.cell_type = "markdown"
             THEN IF cell.todo
                  THEN lesson_tasks_loop(cells, i + 1, tasks,
                           Some(Len(heap) + 1), Append(heap, Task(cell.name)))
                  ELSE lesson_tasks_loop(cells, i + 1, tasks, task, heap)
             ELSE IF cell.cell_type = "code" /\ cell.grade /\ task # None
                  THEN lesson_tasks_loop(cells, i + 1, Append(tasks, task[1]), task,
                           [heap EXCEPT ![task[1]].test_cell = Some(cell.grade_id)])
                  ELSE lesson_tasks_loop(cells, i + 1, tasks, task, heap)

_get_lesson_tasks(lesson_name, notebook_name) ==
    lesson_tasks_loop(source_notebook(lesson_name, notebook_name), 1, << >>, None, << >>)

\* Mutant: a task without grade gets the score 0 of 0.
_get_submission_grades_or_zero(grades, lesson_name, notebook_name) ==
    LET tasks == _get_lesson_tasks(lesson_name, notebook_name)
        grade(cell) == IF cell \in DOMAIN grades THEN grades[cell] ELSE <<0, 0>>
    IN  Returned([j \in DOMAIN tasks |->
            [tasks[j] EXCEPT !.score = grade(tasks[j].test_cell[1])[1],
                             !.max_score = grade(tasks[j].test_cell[1])[2]]])

\* Mutant: the score and the maximum are taken in the other order.
graded_tasks_swapped(grades, tasks) ==
    IF \E j \in DOMAIN tasks : tasks[j].test_cell[1] \notin DOMAIN grades
    THEN Raised
    ELSE Returned([j \in DOMAIN tasks |->
             [tasks[j] EXCEPT !.score = grades[tasks[j].test_cell[1]][2],
                              !.max_score = grades[tasks[j].test_cell[1]][1]]])

\* engine.py:336-337, the loop over the tasks:
\* task.score, task.max_score = grades[task.test_cell], a KeyError for a
\* cell without grade.
graded_tasks(grades, tasks) ==
    IF \E j \in DOMAIN tasks : tasks[j].test_cell[1] \notin DOMAIN grades
    THEN Raised
    ELSE Returned([j \in DOMAIN tasks |->
             [tasks[j] EXCEPT !.score = grades[tasks[j].test_cell[1]][1],
                              !.max_score = grades[tasks[j].test_cell[1]][2]]])

\* Joins the backend's grades (cell -> <<score, max_score>>) with the tasks
\* of the lesson's source notebook.
_get_submission_grades(grades, lesson_name, notebook_name) ==
    graded_tasks(grades, _get_lesson_tasks(lesson_name, notebook_name))

\* Grades the backend may hold after a successful autograde: a score for
\* each graded cell of the source notebook, or (inconsistent stores) none.
GradedCells(lesson_name, notebook_name) ==
    LET cells == source_notebook(lesson_name, notebook_name)
    IN  {cells[i].grade_id : i \in {j \in DOMAIN cells : cells[j].grade}}

BackendGrades(lesson_name, notebook_name) ==
    [GradedCells(lesson_name, notebook_name) -> {<<0, 1>>, <<1, 1>>}]
        \cup {[c \in {} |-> <<0, 0>>]}

\* Mutant: the directory is left on disk.
rmtree_forgotten(dirs, id) == dirs

\* shutil.rmtree of downloaded/<id>
rmtree(dirs, id) == [i \in DOMAIN dirs \ {id} |-> dirs[i]]

\* What the admission phase of grade_submission found.
Outcome(status, checks, user, lesson, notebook) ==
    [status |-> status, evaluated |-> checks, user |-> user, lesson |-> lesson,
     notebook |-> notebook]

\* "raised" stands for an exception leaving grade_submission.
RAISED == "raised"

\* Mutant: only the path is tested, not the missing notebook name.
no_correct_files_path_only(notebook_, dir) ==
    ipynb(notebook_) \notin DOMAIN dir

\* engine.py:98, the file presence check
no_correct_files(notebook_, dir) ==
    notebook_ = None \/ ipynb(notebook_) \notin DOMAIN dir

\* Mutant: the structure is validated before the freshness is checked.
late_checks_swapped(s, found) ==
    LET valid == _is_notebook_valid(downloaded[s.file_path], found.lesson[1],
                                    found.notebook)
    IN  IF valid = Raised
        THEN [found EXCEPT !.status = RAISED,
                           !.evaluated = <<"user", "lesson", "file", "valid">>]
        ELSE IF ~valid[1]
        THEN [found EXCEPT !.status = ERROR_NOTEBOOK_CORRUPTED,
                           !.evaluated = <<"user", "lesson", "file", "valid">>]
        ELSE IF ~_is_submission_newer(<<found.user[1].id, found.lesson[1]>>,
                                      s.timestamp)
        THEN [found EXCEPT !.status = SKIPPED,
                           !.evaluated = <<"user", "lesson", "file", "valid", "fresh">>]
        ELSE [found EXCEPT !.evaluated =
                               <<"user", "lesson", "file", "valid", "fresh">>]

\* Mutant: the result of the structural validation is not looked at.
late_checks_unvalidated(s, found) ==
    IF ~_is_submission_newer(<<found.user[1].id, found.lesson[1]>>, s.timestamp)
    THEN [found EXCEPT !.status = SKIPPED,
                       !.evaluated = <<"user", "lesson", "file", "fresh">>]
    ELSE [found EXCEPT !.evaluated =
                           <<"user", "lesson", "file", "fresh", "valid">>]

\* engine.py:106-123, the freshness check and the structural validation of a
\* submission whose user, lesson and notebook file were found.
late_checks(s, found) ==
    IF ~_is_submission_newer(<<found.user[1].id, found.lesson[1]>>, s.timestamp)
    THEN [found EXCEPT !.status = SKIPPED,
                       !.evaluated = <<"user", "lesson", "file", "fresh">>]
    ELSE
    LET valid == _is_notebook_valid(downloaded[s.file_path], found.lesson[1],
                                    found.notebook)
    IN  IF valid = Raised
        THEN [found EXCEPT !.status = RAISED,
                           !.evaluated = <<"user", "lesson", "file", "fresh", "valid">>]
        ELSE IF ~valid[1]
        THEN [found EXCEPT !.status = ERROR_NOTEBOOK_CORRUPTED,
                           !.evaluated = <<"user", "lesson", "file", "fresh", "valid">>]
        ELSE [found EXCEPT !.evaluated =
                               <<"user", "lesson", "file", "fresh", "valid">>]

\* The five admission checks of grade_submission in the order of the code;
\* each failing check returns at once.  The status is SUCCESS (the default
\* of the new GradeResult) when every check passed.
admission(s) ==
    LET user_info == get_user_info(s.email)
    IN  IF user_info = {}
        THEN Outcome(ERROR_USERNAME_IS_ABSENT, <<"user">>, None, None, None)
        ELSE
        LET user == first(user_info)
            lesson_info == get_lesson_info(s.lesson_name)
        IN  IF lesson_info = {}
            THEN Outcome(ERROR_LESSON_IS_ABSENT, <<"user", "lesson">>,
                         Some(user), None, None)
            ELSE
            LET lesson_ == first(lesson_info).name
                notebook_ == _get_notebook_name(lesson_)
                found == Outcome(SUCCESS, << >>, Some(user), Some(lesson_), notebook_)
            IN  IF no_correct_files(notebook_, downloaded[s.file_path])
                THEN [found EXCEPT !.status = ERROR_NO_CORRECT_FILES,
                                   !.evaluated = <<"user", "lesson", "file">>]
                ELSE late_checks(s, found)

\* Mutant: the email of the result stays the one of the submission.
GradeResult_email_as_sent(s, a) ==
    [submission_id |-> s.submission_id,
     status |-> a.status,
     timestamp |-> s.timestamp,
     email |-> s.email,
     student_id |-> IF a.user = None THEN None ELSE Some(a.user[1].id),
     first_name |-> IF a.user = None THEN None ELSE Some(a.user[1].first_name),
     last_name |-> IF a.user = None THEN None ELSE Some(a.user[1].last_name),
     lesson_name |-> a.lesson,
     task_grades |-> None]

\* The GradeResult as filled in up to the point the admission phase reached.
GradeResult(s, a) ==
    [submission_id |-> s.submission_id,
     status |-> a.status,
     timestamp |-> s.timestamp,
     email |-> IF a.user = None THEN s.email ELSE a.user[1].email,
     student_id |-> IF a.user = None THEN None ELSE Some(a.user[1].id),
     first_name |-> IF a.user = None THEN None ELSE Some(a.user[1].first_name),
     last_name |-> IF a.user = None THEN None ELSE Some(a.user[1].last_name),
     lesson_name |-> a.lesson,
     task_grades |-> None]

\* Mutant: the files are copied into the directory that is there.
promoted_over(dir, timestamp) ==
    LET old == UNION {DOMAIN submitted[p][1].files :
                         p \in {q \in DOMAIN submitted : submitted[q] # None}}
        from(n) == CHOOSE p \in DOMAIN submitted :
                       submitted[p] # None /\ n \in DOMAIN submitted[p][1].files
    IN  [files |-> [n \in DOMAIN dir \cup old |->
                       IF n \in DOMAIN dir THEN dir[n]
                                           ELSE submitted[from(n)][1].files[n]],
         timestamp_txt |-> strftime(timestamp)]

\* _move_checked_files: the promoted directory is replaced by a copy of the
\* downloaded one plus timestamp.txt.
promoted(dir, timestamp) ==
    [files |-> dir, timestamp_txt |-> strftime(timestamp)]

\* Mutant: the status of a failed autograde is not set.
failed_result_unset(result) == result

\* engine.py:129-131, the result of a failed autograde
failed_result(result) == [result EXCEPT !.status = ERROR_GRADER_FAILED]

\* Mutant: the row gets the timestamp as the marker file has it.
log_row_to_the_second(user_id, lesson_name, task_grades, timestamp) ==
    [user_id |-> user_id, lesson_name |-> lesson_name,
     task_grades |-> task_grades, timestamp |-> parse(strftime(timestamp))]

\* The row log_submission inserts.  The call site passes user, lesson,
\* grades, timestamp, feedback and notebook (the definition in database.py
\* is of a revision that takes the submission id first); the feedback and
\* notebook bytes are left out of the model.
log_row(user_id, lesson_name, task_grades, timestamp) ==
    [user_id |-> user_id, lesson_name |-> lesson_name,
     task_grades |-> task_grades, timestamp |-> timestamp]

\* ------------------------------------------------------------------ Init
Init ==
    /\ pc = "idle"
    /\ calls = 0
    /\ next_id = 1
    /\ message = None
    /\ submission = None
    /\ downloaded = [i \in {} |-> EmptyDir]
    /\ submitted = [p \in Pairs |-> None]
    /\ gradebook = [p \in Pairs |-> None]
    /\ submission_logs = << >>
    /\ grade_result = None
    /\ evaluated = << >>
    /\ invoked = << >>
    /\ new_submissions = << >>
    /\ feedback = None
    /\ frame = None

\* ------------------------------------------------------ FeedbackCreator
RECURSIVE SumOf(_, _)
SumOf(tasks, field) ==
    IF tasks = << >>
    THEN 0
    ELSE (IF field = "score" THEN Head(tasks).score ELSE Head(tasks).max_score)
             + SumOf(Tail(tasks), field)

\* The picture for the sum of the scores; ValueError above 100.
_get_pic_by_grade(grade_sum) ==
    IF grade_sum <= 20 THEN Returned("0_20")
    ELSE IF grade_sum <= 40 THEN Returned("21_40")
    ELSE IF grade_sum <= 60 THEN Returned("41_60")
    ELSE IF grade_sum <= 80 THEN Returned("61_80")
    ELSE IF grade_sum <= 99 THEN Returned("81_99")
    ELSE IF grade_sum = 100 THEN Returned("100")
    ELSE Raised

\* The closing words for the score; ValueError above 100.
_get_feedback_message(score, max_score) ==
    IF score = 0 THEN Returned("not solved")
    ELSE IF score <= 80 THEN Returned("not enough")
    ELSE IF score <= 99 THEN Returned("accepted")
    ELSE IF score = 100 THEN Returned("excellent")
    ELSE Raised

Subject(title, lesson_name, timestamp) ==
    [title |-> title, lesson_name |-> lesson_name, timestamp |-> timestamp]

\* ValueError("Obligatory values are missed.") without lesson name, grades
\* or first name; the subject names the lesson and the timestamp.
_get_success_feedback(result) ==
    IF \/ result.lesson_name = None
       \/ result.task_grades = None \/ result.task_grades = Some(<< >>)
       \/ result.first_name = None \/ result.first_name = Some("")
    THEN Raised
    ELSE LET score == SumOf(result.task_grades[1], "score")
             max_score == SumOf(result.task_grades[1], "max_score")
         IN  IF \/ _get_pic_by_grade(score) = Raised
                \/ _get_feedback_message(score, max_score) = Raised
             THEN Raised
             ELSE Returned(Subject("grades", result.lesson_name,
                                   Some(strftime(result.timestamp))))

\* get_feedback: one message per status, ValueError for any other status.
get_feedback(result) ==
    LET subject ==
            CASE result.status = ERROR_NO_CORRECT_FILES ->
                     Returned(Subject("No correct files", None, None))
              [] result.status = ERROR_NOTEBOOK_CORRUPTED ->
                     Returned(Subject("Robots in panic", None, None))
              [] result.status = ERROR_LESSON_IS_ABSENT ->
                     Returned(Subject("Unknown lesson", None, None))
              [] result.status = ERROR_USERNAME_IS_ABSENT ->
                     Returned(Subject("Unknown user", None, None))
              [] result.status = ERROR_GRADER_FAILED ->
                     Returned(Subject("Grader failed", None, None))
              [] result.status = SUCCESS -> _get_success_feedback(result)
              [] OTHER -> Raised
    IN  IF subject = Raised
        THEN Raised
        ELSE Returned([submission_id |-> result.submission_id,
                       subject |-> subject[1],
                       email |-> result.email,
                       student_name |->
                           IF /\ result.first_name \notin {None, Some("")}
                              /\ result.last_name \notin {None, Some("")}
                           THEN Some(<<result.first_name[1], result.last_name[1]>>)
                           ELSE None])

\* --------------------------------------------------------------- actions
\* Submission(...) built by fetch_new_submissions from a message; the
\* sender's address and the lesson name of the subject are stripped.
Submission(msg) ==
    [submission_id |-> msg.submission_id,
     email |-> strip(msg.email),
     lesson_name |-> strip(msg.lesson_name),
     timestamp |-> msg.timestamp,
     file_path |-> msg.submission_id]

\* fetch_new_submissions for the unread messages msg and rest:
\* _extract_attachments (re)creates downloaded/<id> of each and the
\* Submissions are built; the loop starts with the first one.
Deliver(msg, rest) ==
    LET batch == <<msg>> \o rest
        ids == {batch[i].submission_id : i \in DOMAIN batch}
        files(id) == (CHOOSE i \in DOMAIN batch : batch[i].submission_id = id)
    IN  /\ message' = Some(msg)
        /\ new_submissions' = rest
        /\ downloaded' = [i \in DOMAIN downloaded \cup ids |->
                             IF i \in ids THEN batch[files(i)].files
                                          ELSE downloaded[i]]
        /\ submission' = Some(Submission(msg))
        /\ pc' = "fetched"
        /\ calls' = calls + 1
        /\ grade_result' = None
        /\ evaluated' = << >>
        /\ invoked' = << >>
        /\ feedback' = None
        /\ UNCHANGED <<submitted, gradebook, submission_logs, frame>>

\* The messages that may come in one batch behind the first one: further
\* submissions of the known user for lesson Lo with a valid notebook.
FollowUps(first_id, n) ==
    [i \in 1..n |->
        [submission_id |-> first_id + i, email |-> <<"t", "m">>,
         lesson_name |-> <<"L", "o">>, timestamp |-> MaxSec * MsPerSec,
         files |-> OneFile(ipynb(Some(<<"L", "o">>)), Notebook(<<"c1", "c2">>))]]

\* New messages arrive in the inbox and are fetched: a first one with the
\* given choice of sender, subject, time and attachments, and up to
\* batch - 1 messages behind it.
Fetch(emails, lessons, timestamps, dirs, batch) ==
    /\ pc = "idle"
    /\ \E email \in emails, lesson_name \in lessons,
          timestamp \in timestamps, files \in dirs,
          n \in 0..(batch - 1) :
            LET msg == [submission_id |-> next_id, email |-> email,
                        lesson_name |-> lesson_name, timestamp |-> timestamp,
                        files |-> files]
            IN  /\ calls + 1 + n <= MaxSubmissions
                /\ next_id' = next_id + 1 + n
                /\ Deliver(msg, FollowUps(next_id, n))

\* One new message of any sender, for any lesson, is fetched.
FetchNew == Fetch(Emails, SubjectLessons, Timestamps, StagedDirs, 1)

\* A batch of messages of the known user for lesson Lo is fetched.
FetchBatch ==
    Fetch({<<"t", "m">>}, {<<"L", "o">>}, WholeSeconds, LessonDirs, MaxBatch)

\* An exception ended the loop before mark_as_completed: the process is
\* started again and fetches the messages that are still unread.
FetchAgain ==
    /\ pc \in {"raised", "failed"}
    /\ calls + 1 + Len(new_submissions) <= MaxSubmissions
    /\ UNCHANGED next_id
    /\ Deliver(message[1], new_submissions)

\* One step of the grading phase: the operation, whether it reported
\* success, and the promoted directory of the pair right after it.
Step(op, success, dir) == [op |-> op, success |-> success, promoted |-> dir]

\* Mutant: the backend's record of the submission is kept.
remove_submission_kept(records, pair) == records

\* gb.remove_submission(lesson_name, user_id)
remove_submission(records, pair) == [records EXCEPT ![pair] = None]

\* Mutant: the promoted directory is kept when autograde fails.
clear_submitted_kept(dirs, pair) == dirs

\* engine.py:203-206, shutil.rmtree of submitted/<user>/<lesson>
clear_submitted(dirs, pair) == [dirs EXCEPT ![pair] = None]

\* Mutant: the status generate_feedback reports is not looked at.
_create_nbgrader_feedback_unchecked(feedback_ok) == Returned("html")

\* The feedback file's content; RuntimeError when generate_feedback reports
\* a failure.
_create_nbgrader_feedback(feedback_ok) ==
    IF feedback_ok THEN Returned("html") ELSE Raised

\* engine.py:125-147, the grading phase of an admitted submission: the
\* files are promoted, the backend grades them (success says whether
\* autograde succeeded, grades are the grades it recorded, feedback_ok
\* whether generate_feedback succeeded), and the row is logged.
Grading(s, a, success, grades, feedback_ok) ==
    LET user_ == a.user[1].id
        lesson_ == a.lesson[1]
        notebook_ == a.notebook[1]
        pair == <<user_, lesson_>>
        copy == Some(promoted(downloaded[s.file_path], s.timestamp))
        moved == [submitted EXCEPT ![pair] = copy]
        cleared == clear_submitted(moved, pair)
        begun == <<Step("_move_checked_files", TRUE, copy),
                   Step("autograde", success, copy)>>
        task_grades == _get_submission_grades(grades, lesson_, notebook_)
        html == _create_nbgrader_feedback(feedback_ok)
    IN  /\ downloaded' = rmtree(downloaded, s.file_path)
        /\ IF ~success
           THEN \* _autograde failed: the backend's submission and the
                \* promoted directory are removed
                /\ gradebook' = remove_submission(gradebook, pair)
                /\ submitted' = cleared
                /\ grade_result' = Some(failed_result(GradeResult(s, a)))
                /\ invoked' = begun \o <<Step("remove_submission", TRUE, copy),
                                         Step("rmtree", TRUE, cleared[pair])>>
                /\ pc' = "returned"
                /\ UNCHANGED submission_logs
           ELSE /\ gradebook' = [gradebook EXCEPT ![pair] = Some(grades)]
                /\ submitted' = moved
                /\ IF task_grades = Raised
                   THEN \* KeyError in _get_submission_grades
                        /\ grade_result' = None
                        /\ invoked' = begun
                        /\ pc' = "raised"
                        /\ UNCHANGED submission_logs
                   ELSE IF html = Raised
                   THEN \* RuntimeError in _create_nbgrader_feedback
                        /\ grade_result' = None
                        /\ invoked' = begun \o
                               <<Step("generate_feedback", feedback_ok, copy)>>
                        /\ pc' = "raised"
                        /\ UNCHANGED submission_logs
                   ELSE /\ submission_logs' = Append(submission_logs,
                               log_row(user_, lesson_, task_grades[1], s.timestamp))
                        /\ grade_result' =
                               Some([GradeResult(s, a) EXCEPT
                                        !.task_grades = Some(task_grades[1])])
                        /\ invoked' = begun \o
                               <<Step("generate_feedback", feedback_ok, copy),
                                 Step("log_submission", TRUE, copy)>>
                        /\ pc' = "returned"

\* Grader.grade_submission(submission)
GradeSubmission ==
    /\ pc = "fetched"
    /\ LET s == submission[1]
           a == admission(s)
       IN  /\ evaluated' = a.evaluated
           /\ IF a.status = RAISED
              THEN \* an exception left the admission phase
                   /\ grade_result' = None
                   /\ invoked' = << >>
                   /\ pc' = "raised"
                   /\ UNCHANGED <<downloaded, submitted, gradebook, submission_logs>>
              ELSE IF a.status # SUCCESS
              THEN \* an admission check failed: status, rmtree, return
                   /\ downloaded' = rmtree(downloaded, s.file_path)
                   /\ grade_result' = Some(GradeResult(s, a))
                   /\ invoked' = << >>
                   /\ pc' = "returned"
                   /\ UNCHANGED <<submitted, gradebook, submission_logs>>
              ELSE \E success \in BOOLEAN,
                      grades \in BackendGrades(a.lesson[1], a.notebook[1]),
                      feedback_ok \in BOOLEAN :
                        Grading(s, a, success, grades, feedback_ok)
    /\ UNCHANGED <<calls, next_id, message, submission, new_submissions,
                   feedback, frame>>

\* Mutant: a feedback is created for every result.
to_send_always(status) == TRUE

\* main.py:116, grade_result.status is not GradeStatus.SKIPPED
to_send(status) == status # SKIPPED

\* main.py:116-121, a result that is not SKIPPED: the feedback is created
\* and sent (sent says whether send_feedback got through or gave up with
\* an error); an exception of either ends the loop.
Send(outcomes) ==
    /\ pc = "returned"
    /\ to_send(grade_result[1].status)
    /\ \E sent \in outcomes :
         LET created == get_feedback(grade_result[1])
         IN  IF created # Raised /\ sent
             THEN /\ feedback' = Some(created[1])
                  /\ pc' = "sent"
                  /\ UNCHANGED grade_result
             ELSE /\ feedback' = None
                  /\ pc' = "failed"
                  /\ grade_result' = None
    /\ UNCHANGED <<calls, next_id, message, submission, new_submissions,
                   downloaded, submitted, gradebook, submission_logs,
                   evaluated, invoked, frame>>

\* main.py:124, the message is marked as read, and the for loop takes the
\* next submission of the batch.
MarkAsCompleted ==
    /\ \/ pc = "sent"
       \/ pc = "returned" /\ ~to_send(grade_result[1].status)
    /\ IF new_submissions = << >>
       THEN /\ message' = None
            /\ submission' = None
            /\ pc' = "idle"
            /\ UNCHANGED <<calls, new_submissions>>
       ELSE /\ message' = Some(Head(new_submissions))
            /\ submission' = Some(Submission(Head(new_submissions)))
            /\ new_submissions' = Tail(new_submissions)
            /\ pc' = "fetched"
            /\ calls' = calls + 1
    /\ grade_result' = None
    /\ evaluated' = << >>
    /\ invoked' = << >>
    /\ feedback' = None
    /\ UNCHANGED <<next_id, downloaded, submitted, gradebook,
                   submission_logs, frame>>

\* An exception ended the loop and the process is started again; the model
\* goes on with the messages that arrived meanwhile.
Restart ==
    /\ pc \in {"raised", "failed"}
    /\ message' = None
    /\ submission' = None
    /\ new_submissions' = << >>
    /\ pc' = "idle"
    /\ grade_result' = None
    /\ evaluated' = << >>
    /\ invoked' = << >>
    /\ feedback' = None
    /\ UNCHANGED <<calls, next_id, downloaded, submitted, gradebook,
                   submission_logs, frame>>

\* The feedback is created and Gmail accepts it.
SendFeedback == Send({TRUE})

\* The feedback is created and Gmail accepts it, or send_feedback gives up.
SendFeedbackOrFail == Send(BOOLEAN)

Next ==
    \/ FetchNew
    \/ FetchAgain
    \/ GradeSubmission
    \/ SendFeedback
    \/ MarkAsCompleted
    \/ Restart

\* The main loop fed with batches of the known user's submissions for
\* lesson Lo, with a Gmail that may fail.
NextLoop ==
    \/ FetchBatch
    \/ FetchAgain
    \/ GradeSubmission
    \/ SendFeedbackOrFail
    \/ MarkAsCompleted
    \/ Restart

SpecLoop == Init /\ [][NextLoop]_vars

Spec == Init /\ [][Next]_vars

\* ------------------------------------------- _is_notebook_valid on its own
\* Lists of at most n grade ids.
RECURSIVE Lists(_, _)
Lists(ids, n) ==
    IF n = 0
    THEN {<< >>}
    ELSE Lists(ids, n - 1)
             \cup {Append(l, x) : l \in {k \in Lists(ids, n - 1) : Len(k) = n - 1},
                                  x \in ids}

\* cell["metadata"]["nbgrader"].get("grade_id") of a cell without grade_id
NoGradeId == "None"

\* Contents of the submitted notebook file.
SubmittedContents ==
    {Notebook(cells) : cells \in Lists({"c1", "c2", "c3", NoGradeId}, MaxCells)}
        \cup {Malformed, NotANotebook}

\* The stores are those of Init; the helper is about to be called with the
\* staged directory of a submission for lesson Lo.
InitValid ==
    /\ pc = "idle"
    /\ calls = 0
    /\ next_id = 1
    /\ message = None
    /\ submission = None
    /\ downloaded = [i \in {} |-> EmptyDir]
    /\ submitted = [p \in Pairs |-> None]
    /\ gradebook = [p \in Pairs |-> None]
    /\ submission_logs = << >>
    /\ grade_result = None
    /\ evaluated = << >>
    /\ invoked = << >>
    /\ new_submissions = << >>
    /\ feedback = None
    /\ \E content \in SubmittedContents :
           frame = [at |-> "call",
                    path |-> OneFile(ipynb(Some(<<"L", "o">>)), content),
                    lesson_name |-> <<"L", "o">>,
                    notebook_name |-> <<"L", "o">>,
                    result |-> Raised]

\* self._is_notebook_valid(path, lesson_name, notebook_name)
IsNotebookValid ==
    /\ frame.at = "call"
    /\ frame' = [frame EXCEPT
                    !.at = "return",
                    !.result = _is_notebook_valid(frame.path, frame.lesson_name,
                                                  Some(frame.notebook_name))]
    /\ UNCHANGED <<pc, calls, next_id, message, submission, downloaded,
                   submitted, gradebook, submission_logs, grade_result,
                   evaluated, invoked, new_submissions, feedback>>

NextValid == IsNotebookValid

SpecValid == InitValid /\ [][NextValid]_vars

\* ======================================================================
\* Properties
\* ======================================================================
\* The call of grade_submission for the current message has ended.
Done == pc \in {"returned", "raised"}
ReturnedStatus(status) == pc = "returned" /\ grade_result[1].status = status

\* Equality of strings up to letter case, letter by letter.
CasePairs ==
    { <<"t", "T">>, <<"r", "R">>, <<"l", "L">>, <<"o", "O">>, <<"e", "E">>,
      <<"n", "N">> }
SameLetter(c, d) == c = d \/ <<c, d>> \in CasePairs \/ <<d, c>> \in CasePairs
EqualIgnoringCase(x, y) ==
    Len(x) = Len(y) /\ \A i \in DOMAIN x : SameLetter(x[i], y[i])

\* What a message fails, stated on the message and the stores.
UserAbsent(m) == \A u \in student : ~EqualIgnoringCase(u.email, m.email)
LessonAbsent(m) == \A l \in assignment : ~EqualIgnoringCase(l.name, m.lesson_name)
TheUser(m) == CHOOSE u \in student : EqualIgnoringCase(u.email, m.email)
TheLesson(m) == CHOOSE l \in assignment : EqualIgnoringCase(l.name, m.lesson_name)
ThePair(m) == <<TheUser(m).id, TheLesson(m).name>>
NotebookFile(m) == TheLesson(m).notebooks[1] \o <<".ipynb">>
ZeroNotebooks(m) == TheLesson(m).notebooks = << >>
FileAbsent(m) == ZeroNotebooks(m) \/ NotebookFile(m) \notin DOMAIN m.files
Occurrences(list, x) == Cardinality({i \in DOMAIN list : list[i] = x})
Corrupted(m) ==
    \/ m.files[NotebookFile(m)].kind = "malformed"
    \/ \E x \in {"m1", "c1", "c2"} :
           Occurrences(m.files[NotebookFile(m)].cells, x)
               # Occurrences(source_cells(TheLesson(m).notebooks[1],
                                          TheLesson(m).name), x)
\* The marker of the pair holds a time that is not before the message's.
Stale(m) ==
    /\ submitted[ThePair(m)] # None
    /\ m.timestamp <= submitted[ThePair(m)][1].timestamp_txt.seconds * MsPerSec

AllChecks == <<"user", "lesson", "file", "fresh", "valid">>

\* C1: grade_submission evaluates the admission checks in the order user,
\* lesson, file presence, freshness, structure; the status returned is that
\* of the first check the submission fails, whatever later checks it fails
\* too, and no check after the failing one is evaluated.
C1_FirstFailingCheckDecides ==
    [][pc = "fetched" /\ pc' = "returned" =>
        LET m == message[1]
            status == grade_result'[1].status
        IN  IF UserAbsent(m)
            THEN status = ERROR_USERNAME_IS_ABSENT /\ evaluated' = SubSeq(AllChecks, 1, 1)
            ELSE IF LessonAbsent(m)
            THEN status = ERROR_LESSON_IS_ABSENT /\ evaluated' = SubSeq(AllChecks, 1, 2)
            ELSE IF FileAbsent(m)
            THEN status = ERROR_NO_CORRECT_FILES /\ evaluated' = SubSeq(AllChecks, 1, 3)
            ELSE IF Stale(m)
            THEN status = SKIPPED /\ evaluated' = SubSeq(AllChecks, 1, 4)
            ELSE IF Corrupted(m)
            THEN status = ERROR_NOTEBOOK_CORRUPTED /\ evaluated' = AllChecks
            ELSE status \in {SUCCESS, ERROR_GRADER_FAILED} /\ evaluated' = AllChecks
    ]_vars

\* C1 witness: a stale submission with a corrupted notebook was SKIPPED and
\* its notebook was not validated.
C1_Witness ==
    /\ ReturnedStatus(SKIPPED)
    /\ Corrupted(message[1])
    /\ evaluated = <<"user", "lesson", "file", "fresh">>

\* C2: a submission whose email equals no user's email up to letter case is
\* returned with ERROR_USERNAME_IS_ABSENT and its staged directory is gone.
C2_UnknownEmailRejected ==
    Done /\ UserAbsent(message[1]) =>
        /\ ReturnedStatus(ERROR_USERNAME_IS_ABSENT)
        /\ submission[1].file_path \notin DOMAIN downloaded

\* C2 witness: such a submission was processed.
C2_Witness ==
    /\ ReturnedStatus(ERROR_USERNAME_IS_ABSENT)
    /\ UserAbsent(message[1])
    /\ message[1].files # EmptyDir
    /\ submission[1].file_path \notin DOMAIN downloaded

\* C3 as stated: every submission whose lesson name equals no lesson's name
\* up to letter case is returned with ERROR_LESSON_IS_ABSENT.
C3_AsStated ==
    Done /\ LessonAbsent(message[1]) => ReturnedStatus(ERROR_LESSON_IS_ABSENT)

\* C3 amended: every submission of a known user whose lesson name equals no
\* lesson's name up to letter case is returned with ERROR_LESSON_IS_ABSENT.
C3_UnknownLessonOfKnownUser ==
    Done /\ ~UserAbsent(message[1]) /\ LessonAbsent(message[1]) =>
        ReturnedStatus(ERROR_LESSON_IS_ABSENT)

\* C3 witness: a known user, addressed in another letter case, sent an
\* unknown lesson.
C3_Witness ==
    /\ ReturnedStatus(ERROR_LESSON_IS_ABSENT)
    /\ ~UserAbsent(message[1])
    /\ message[1].email \notin {u.email : u \in student}
    /\ LessonAbsent(message[1])

\* C4: with the user and the lesson resolved, the status is
\* ERROR_NO_CORRECT_FILES when the staged directory has no file
\* <notebook>.ipynb, and also when the lesson has no notebook at all,
\* whatever is staged.
C4_NoCorrectFiles ==
    Done /\ ~UserAbsent(message[1]) /\ ~LessonAbsent(message[1])
         /\ FileAbsent(message[1]) =>
        ReturnedStatus(ERROR_NO_CORRECT_FILES)

\* C4 witness: a lesson without notebooks with a file None.ipynb staged.
C4_Witness ==
    /\ ReturnedStatus(ERROR_NO_CORRECT_FILES)
    /\ ~UserAbsent(message[1]) /\ ~LessonAbsent(message[1])
    /\ ZeroNotebooks(message[1])
    /\ ipynb(None) \in DOMAIN message[1].files

\* C5: whenever grade_submission has returned, whatever the status, the
\* staged directory of the submission does not exist.
C5_StagedDirectoryRemoved ==
    pc = "returned" => submission[1].file_path \notin DOMAIN downloaded

\* C5 witness: a submission was promoted and graded, and its staged
\* directory is gone.
C5_Witness ==
    /\ ReturnedStatus(SUCCESS)
    /\ submitted[ThePair(message[1])] # None
    /\ submitted[ThePair(message[1])][1].files = message[1].files
    /\ submission[1].file_path \notin DOMAIN downloaded

\* The ledger rows of a pair, in insertion order.
RECURSIVE RowsOf(_, _)
RowsOf(rows, pair) ==
    IF rows = << >>
    THEN << >>
    ELSE IF <<Head(rows).user_id, Head(rows).lesson_name>> = pair
    THEN <<Head(rows)>> \o RowsOf(Tail(rows), pair)
    ELSE RowsOf(Tail(rows), pair)

\* The message is for a known pair and carries the notebook file.
ReachesFreshness(m) == ~UserAbsent(m) /\ ~LessonAbsent(m) /\ ~FileAbsent(m)
WholeSecond(timestamp) == timestamp % MsPerSec = 0

\* C6 as stated: once a submission of a pair was graded SUCCESS (it has a
\* ledger row), every later submission of the pair with an equal or earlier
\* timestamp is SKIPPED, whatever the sub-second part of the timestamps; a
\* pair without promoted copy passes the freshness check.
C6_AsStated ==
    [][pc = "fetched" /\ Done' /\ ReachesFreshness(message[1]) =>
        LET m == message[1]
            rows == RowsOf(submission_logs, ThePair(m))
        IN  /\ (\E i \in DOMAIN rows : m.timestamp <= rows[i].timestamp) =>
                   pc' = "returned" /\ grade_result'[1].status = SKIPPED
            /\ submitted[ThePair(m)] = None =>
                   ~(pc' = "returned" /\ grade_result'[1].status = SKIPPED)
    ]_vars

\* The second of two submissions of one pair is being graded; the first one
\* was graded SUCCESS and the second one is well-formed.
SecondOfTwo ==
    /\ pc = "fetched" /\ Done'
    /\ calls = 2
    /\ Len(submission_logs) = 1
    /\ ReachesFreshness(message[1])
    /\ ~Corrupted(message[1])
    /\ <<submission_logs[1].user_id, submission_logs[1].lesson_name>>
           = ThePair(message[1])

\* The backend graded the second submission (autograde and the feedback
\* generation succeeded) or it was not handed to the backend.
BackendWorkedNext ==
    pc' = "returned" /\ grade_result'[1].status # ERROR_GRADER_FAILED

C8_AsStated ==
    \A p \in Pairs :
        \A i, j \in DOMAIN RowsOf(submission_logs, p) :
            /\ i < j
            /\ WholeSecond(RowsOf(submission_logs, p)[i].timestamp)
            /\ WholeSecond(RowsOf(submission_logs, p)[j].timestamp)
            => RowsOf(submission_logs, p)[i].timestamp
                   < RowsOf(submission_logs, p)[j].timestamp

\* C9 as stated: a submission is SKIPPED only because of a submission that
\* was persisted, so the ledger holds a row of the pair whose timestamp is
\* not before the skipped one's.
C9_AsStated ==
    ReturnedStatus(SKIPPED) =>
        \E i \in DOMAIN submission_logs :
            /\ <<submission_logs[i].user_id, submission_logs[i].lesson_name>>
                   = ThePair(message[1])
            /\ message[1].timestamp <= submission_logs[i].timestamp

\* C10: a returned GradeResult has task_grades exactly when its status is
\* SUCCESS.
C10_GradesIffSuccess ==
    pc = "returned" =>
        (grade_result[1].task_grades # None <=> grade_result[1].status = SUCCESS)

\* C10 witness: a SUCCESS result with the grade of a task.
C10_Witness ==
    /\ ReturnedStatus(SUCCESS)
    /\ grade_result[1].task_grades # None
    /\ Len(grade_result[1].task_grades[1]) = 1
    /\ grade_result[1].task_grades[1][1].score = 1

\* ---------------------------------------------------------------- C11
\* The file _is_notebook_valid was called with.
TheContent == frame.path[ipynb(Some(frame.notebook_name))]
GradeIds == {"c1", "c2", "c3", NoGradeId}

\* C11: for a parsed notebook _is_notebook_valid returns True exactly when
\* every grade identifier occurs among the notebook's nbgrader cells as
\* often as among the lesson's source cells: permutations are valid, a
\* missing, an extra or a duplicated identifier is not.
C11_MultisetEquality ==
    frame.at = "return" /\ TheContent.kind = "notebook" =>
        LET expected == source_cells(frame.notebook_name, frame.lesson_name)
            same == \A x \in GradeIds :
                        Occurrences(TheContent.cells, x) = Occurrences(expected, x)
        IN  frame.result = Returned(same)

\* C11 witness: the expected identifiers in another order were found valid.
C11_Witness ==
    /\ frame.at = "return"
    /\ TheContent = Notebook(<<"c2", "c1">>)
    /\ frame.result = Returned(TRUE)

\* ---------------------------------------------------------------- C12
\* C12 as stated: for every content of the notebook file that is not a
\* notebook (text json.load rejects, or JSON that is no object with a cells
\* array of cells with metadata) _is_notebook_valid returns False and does
\* not raise.
C12_AsStated ==
    frame.at = "return" /\ TheContent.kind # "notebook" =>
        frame.result = Returned(FALSE)

\* ---------------------------------------------------------------- C13
\* The operations of the last call, in order.
Ops(steps) == [i \in DOMAIN steps |-> steps[i].op]
Invoked(steps, op) == \E i \in DOMAIN steps : steps[i].op = op
Rejections ==
    {ERROR_USERNAME_IS_ABSENT, ERROR_LESSON_IS_ABSENT, ERROR_NO_CORRECT_FILES,
     SKIPPED, ERROR_NOTEBOOK_CORRUPTED}

\* C13: a call of grade_submission invokes the backend's autograde or
\* generate_feedback only for a submission that passes all five admission
\* checks, and a call that returns one of the five rejection statuses has
\* invoked neither and left the backend's records alone.
C13_BackendAfterAdmission ==
    [][pc = "fetched" /\ Done' =>
        LET m == message[1]
        IN  /\ Invoked(invoked', "autograde") \/ Invoked(invoked', "generate_feedback")
                   => /\ ~UserAbsent(m) /\ ~LessonAbsent(m) /\ ~FileAbsent(m)
                      /\ ~Stale(m) /\ ~Corrupted(m)
                      /\ evaluated' = AllChecks
            /\ pc' = "returned" /\ grade_result'[1].status \in Rejections
                   => /\ ~Invoked(invoked', "autograde")
                      /\ ~Invoked(invoked', "generate_feedback")
                      /\ gradebook' = gradebook
    ]_vars

\* C13 witness: a stale submission of a pair the backend has graded was
\* SKIPPED without a backend operation.
C13_Witness ==
    /\ ReturnedStatus(SKIPPED)
    /\ gradebook[ThePair(message[1])] # None
    /\ invoked = << >>

\* ---------------------------------------------------------------- C14
\* The message passes the five admission checks.
Admitted(m) ==
    /\ ~UserAbsent(m) /\ ~LessonAbsent(m) /\ ~FileAbsent(m)
    /\ ~Stale(m) /\ ~Corrupted(m)

DataFile == <<"d", ".csv">>

\* C14: the first grading step of an admitted submission is the promotion,
\* autograde comes after it, and right after the promotion the promoted
\* directory of the pair holds exactly the staged files and a marker with
\* the submission's timestamp (in DATE_FORMAT, to the second); nothing of
\* an earlier promoted copy is left, and the staged directory is gone.
C14_PromotionBeforeAutograde ==
    [][pc = "fetched" /\ Done' /\ Admitted(message[1]) =>
        LET m == message[1]
        IN  /\ Len(invoked') >= 2
            /\ invoked'[1].op = "_move_checked_files"
            /\ invoked'[1].promoted # None
            /\ invoked'[1].promoted[1].files = m.files
            /\ invoked'[1].promoted[1].timestamp_txt
                   = [seconds |-> m.timestamp \div MsPerSec, tz |-> "UTC"]
            /\ \A i \in DOMAIN invoked' : invoked'[i].op = "autograde" => i = 2
            /\ invoked'[2].op = "autograde"
            /\ m.submission_id \notin DOMAIN downloaded'
    ]_vars

\* C14 witness: a notebook without data file was promoted over the copy of
\* the first submission (which the ledger holds as its only row), and the
\* autograde that followed failed.
C14_Witness ==
    /\ ReturnedStatus(ERROR_GRADER_FAILED)
    /\ Len(submission_logs) = 1
    /\ calls = 2
    /\ Ops(invoked) = <<"_move_checked_files", "autograde",
                        "remove_submission", "rmtree">>
    /\ invoked[1].promoted[1].files = message[1].files
    /\ DataFile \notin DOMAIN message[1].files

\* ---------------------------------------------------------------- C15
\* The promoted copy of the current message: its files and its marker.
CopyOf(m) ==
    Some([files |-> m.files,
          timestamp_txt |-> [seconds |-> m.timestamp \div MsPerSec, tz |-> "UTC"]])

\* C15 as stated: after grade_submission returned ERROR_GRADER_FAILED the
\* promoted copy of the submission (files and marker) is still there.
C15_AsStated ==
    ReturnedStatus(ERROR_GRADER_FAILED) =>
        submitted[ThePair(message[1])] = CopyOf(message[1])

\* C15 amended: promotion is rolled back when autograde fails, and only
\* then: after ERROR_GRADER_FAILED the pair has no promoted directory;
\* after any other end of the grading phase (SUCCESS, or an error raised
\* for a missing score or a failed feedback generation) the promoted copy
\* of the submission remains.
C15_RolledBackOnGraderFailure ==
    Done /\ invoked # << >> =>
        IF ReturnedStatus(ERROR_GRADER_FAILED)
        THEN submitted[ThePair(message[1])] = None
        ELSE submitted[ThePair(message[1])] = CopyOf(message[1])

\* C15 witness: the autograde of a later submission failed, and the copy
\* promoted by the accepted first submission is gone with it.
C15_Witness ==
    /\ ReturnedStatus(ERROR_GRADER_FAILED)
    /\ Len(submission_logs) >= 1
    /\ submission_logs[1].timestamp < message[1].timestamp
    /\ submitted[ThePair(message[1])] = None

\* ---------------------------------------------------------------- C16
AutogradeFailed(steps) ==
    \E i \in DOMAIN steps : steps[i].op = "autograde" /\ ~steps[i].success

\* C16: grade_submission returns ERROR_GRADER_FAILED exactly when autograde
\* reported a failure, and then the backend's record of the pair is
\* removed, the pair has no promoted directory, the ledger is as before,
\* and the staged directory is gone too, so the submitted files exist in
\* neither area.
C16_GraderFailure ==
    [][pc = "fetched" /\ Done' =>
        LET m == message[1]
            failed == pc' = "returned"
                        /\ grade_result'[1].status = ERROR_GRADER_FAILED
        IN  /\ failed <=> AutogradeFailed(invoked')
            /\ failed =>
                  /\ gradebook'[ThePair(m)] = None
                  /\ submitted'[ThePair(m)] = None
                  /\ submission_logs' = submission_logs
                  /\ m.submission_id \notin DOMAIN downloaded'
    ]_vars

\* C16 witness: the autograde of the second submission of a pair failed;
\* the backend's record of the first one is removed and no directory holds
\* the second one's files.
C16_Witness ==
    /\ ReturnedStatus(ERROR_GRADER_FAILED)
    /\ calls = 2 /\ Len(submission_logs) = 1
    /\ gradebook[ThePair(message[1])] = None
    /\ submitted[ThePair(message[1])] = None
    /\ message[1].submission_id \notin DOMAIN downloaded

\* ---------------------------------------------------------------- C17
FeedbackFailed(steps) ==
    \E i \in DOMAIN steps : steps[i].op = "generate_feedback" /\ ~steps[i].success

\* The loop has gone on with the current or a further submission.
LoopGoesOn ==
    ENABLED GradeSubmission \/ ENABLED SendFeedbackOrFail \/ ENABLED MarkAsCompleted

\* C17: when generate_feedback reports a failure after a successful
\* autograde, grade_submission raises and returns no GradeResult, the
\* ledger is as before, and the loop is over: no feedback is sent for the
\* submission, its message stays unread, and neither it nor the rest of
\* the batch is processed further by this run.
C17_FeedbackFailureIsFatal ==
    /\ [][pc = "fetched" /\ Done' /\ FeedbackFailed(invoked') =>
             /\ pc' = "raised"
             /\ grade_result' = None
             /\ submission_logs' = submission_logs
             /\ new_submissions' = new_submissions]_vars
    /\ [](pc = "raised" /\ FeedbackFailed(invoked) =>
             /\ feedback = None
             /\ message # None
             /\ ~LoopGoesOn)

\* C17 witness: the feedback generation failed for the first submission of
\* a batch, and the second one is left unprocessed.
C17_Witness ==
    /\ pc = "raised"
    /\ FeedbackFailed(invoked)
    /\ ~AutogradeFailed(invoked)
    /\ new_submissions # << >>
    /\ submission_logs = << >>

\* ---------------------------------------------------------------- C18
\* The test cells of the tasks the source notebook of the lesson declares.
DeclaredTestCells(lesson_name, notebook_name) ==
    LET cells == source_notebook(lesson_name, notebook_name)
    IN  {cells[i].grade_id : i \in {j \in DOMAIN cells :
                                  cells[j].cell_type = "code" /\ cells[j].grade}}

\* The backend graded the submission and has no score for a declared task.
ScoreMissing(m, steps, records) ==
    /\ Invoked(steps, "autograde") /\ ~AutogradeFailed(steps)
    /\ \E cell \in DeclaredTestCells(TheLesson(m).name, TheLesson(m).notebooks[1]) :
           cell \notin DOMAIN records[ThePair(m)][1]

\* C18: when the backend's record of the graded submission has no score
\* for a declared task, grade_submission raises: it returns no result (so
\* none with the score defaulted to zero) and the ledger is as before.
C18_MissingScoreRaises ==
    [][pc = "fetched" /\ Done' /\ ScoreMissing(message[1], invoked', gradebook') =>
          /\ pc' = "raised"
          /\ grade_result' = None
          /\ submission_logs' = submission_logs
    ]_vars

\* C18 witness: the submission was promoted and autograded, the backend
\* holds no score, and the call raised before the feedback generation.
C18_Witness ==
    /\ pc = "raised"
    /\ Ops(invoked) = <<"_move_checked_files", "autograde">>
    /\ ScoreMissing(message[1], invoked, gradebook)

\* ---------------------------------------------------------------- C19
\* C19: a call of grade_submission that returns SUCCESS appends exactly one
\* ledger row, with the submission's user, lesson, timestamp and grades;
\* any other call, and any other step of the program, leaves the ledger as
\* it is, so no row is ever deleted or changed.
C19_LedgerIffSuccess ==
    [][IF pc = "fetched" /\ pc' = "returned" /\ grade_result'[1].status = SUCCESS
       THEN LET m == message[1]
            IN  submission_logs' =
                    Append(submission_logs,
                           [user_id |-> TheUser(m).id,
                            lesson_name |-> TheLesson(m).name,
                            task_grades |-> grade_result'[1].task_grades[1],
                            timestamp |-> m.timestamp])
       ELSE submission_logs' = submission_logs
    ]_vars

\* C19 witness: the third call returned SUCCESS at a timestamp with a
\* sub-second part; the ledger holds its row behind an earlier one, and one
\* call in between wrote nothing.
C19_Witness ==
    /\ ReturnedStatus(SUCCESS)
    /\ calls = 3
    /\ Len(submission_logs) = 2
    /\ submission_logs[2].timestamp = message[1].timestamp
    /\ ~WholeSecond(message[1].timestamp)
    /\ submission_logs[2].user_id = grade_result[1].student_id[1]

\* ---------------------------------------------------------------- C20
\* A step of the loop body that follows grade_submission's return.
Marks == pc \in {"returned", "sent"} /\ pc' \in {"idle", "fetched"}

\* C20: after grade_submission returned a status other than SKIPPED the
\* next step of the loop creates the feedback and calls send_feedback, and
\* the message is marked as completed only after the feedback for this
\* very submission was sent; after SKIPPED the next step marks the message
\* as completed and no feedback is created or sent.
C20_FeedbackBeforeMark ==
    [][/\ pc = "returned" /\ grade_result[1].status # SKIPPED =>
              /\ pc' \in {"sent", "failed"}
              /\ message' = message
              /\ pc' = "sent" =>
                     /\ feedback' # None
                     /\ feedback'[1].submission_id = message[1].submission_id
                     /\ feedback'[1].email = grade_result[1].email
       /\ pc = "returned" /\ grade_result[1].status = SKIPPED =>
              Marks /\ feedback = None /\ feedback' = None
       /\ Marks /\ grade_result[1].status # SKIPPED =>
              /\ pc = "sent"
              /\ feedback # None
              /\ feedback[1].submission_id = message[1].submission_id
       /\ Marks => message' # message
    ]_vars

\* C20 witness: the feedback for a failed grading was sent, and the
\* message is about to be marked as completed.
C20_Witness ==
    /\ pc = "sent"
    /\ grade_result[1].status = ERROR_GRADER_FAILED
    /\ feedback # None
    /\ feedback[1].submission_id = message[1].submission_id
    /\ feedback[1].subject.title = "Grader failed"

\* ---------------------------------------------------------------- C21
\* The loop as a supervisor keeps it running: after an exception the process
\* is started again and fetches the messages that are still unread.
NextLive ==
    \/ FetchBatch
    \/ FetchAgain
    \/ GradeSubmission
    \/ SendFeedbackOrFail
    \/ MarkAsCompleted

\* The loop body goes on by itself (grade_submission is enabled whenever a
\* submission was fetched, so its weak fairness says that the loop does not
\* stay there), a stopped process is started again, and Gmail does not
\* refuse a feedback every time it is tried.
SpecLive ==
    /\ Init
    /\ [][NextLive]_vars
    /\ []<>(pc # "fetched")
    /\ WF_vars(MarkAsCompleted)
    /\ WF_vars(FetchAgain)
    /\ SF_vars(SendFeedback)

MessageIds == 1..MaxSubmissions

\* grade_submission returned a status other than SKIPPED for message id.
Outcome_(id) ==
    /\ pc = "returned"
    /\ message[1].submission_id = id
    /\ grade_result[1].status # SKIPPED

\* The feedback for message id was sent.
FeedbackSent(id) ==
    /\ pc = "sent"
    /\ feedback # None
    /\ feedback[1].submission_id = id

\* The run stopped and the model has no grade_submission call left for the
\* unread messages.
OutOfCalls ==
    /\ pc \in {"raised", "failed"}
    /\ calls + 1 + Len(new_submissions) > MaxSubmissions

\* C21 as stated: every submission for which grade_submission returned a
\* status other than SKIPPED eventually has its feedback sent, also when the
\* run stopped before the sending and a restarted run fetched the unread
\* message again.
C21_AsStated ==
    \A id \in MessageIds :
        Outcome_(id) ~> (FeedbackSent(id) \/ OutOfCalls)

\* ---------------------------------------------------------------- C22
\* Two executions of grade_submission for the pair (mosby_ted, Lo), taken
\* file operation by file operation.  `frame` holds the mode (serial: one
\* execution runs from call to return before the other starts, as in the
\* for loop of main.py), submitted/mosby_ted/Lo as the directory `dir` and
\* its file timestamp.txt `marker`, and for each execution its position,
\* its submission and its outcome.
Executions == {1, 2}
RUNNING == "RUNNING"

\* The staged files of the two submissions differ, so a promoted copy tells
\* whose it is.
StagedOf(p) ==
    IF p = 1
    THEN OneFile(ipynb(Some(<<"L", "o">>)), Notebook(<<"c1", "c2">>))
    ELSE WithData(OneFile(ipynb(Some(<<"L", "o">>)), Notebook(<<"c1", "c2">>)))

InitRace ==
    /\ pc = "idle"
    /\ calls = 0
    /\ next_id = 1
    /\ message = None
    /\ submission = None
    /\ downloaded = [i \in {} |-> EmptyDir]
    /\ submitted = [p \in Pairs |-> None]
    /\ gradebook = [p \in Pairs |-> None]
    /\ submission_logs = << >>
    /\ grade_result = None
    /\ evaluated = << >>
    /\ invoked = << >>
    /\ new_submissions = << >>
    /\ feedback = None
    /\ \E serial \in BOOLEAN, t1 \in WholeSeconds, t2 \in WholeSeconds :
           frame = [at |-> "race",
                    serial |-> serial,
                    dir |-> None,
                    marker |-> None,
                    proc |-> [p \in Executions |->
                                 [pc |-> "call",
                                  timestamp |-> IF p = 1 THEN t1 ELSE t2,
                                  status |-> RUNNING]]]

\* Mutant: an execution starts while the other is under way.
MayStep_unserialised(p) == TRUE

\* main.py:111-124: in serial mode a submission is taken only when the
\* execution for the one before has ended.
MayStep(p) ==
    frame.serial =>
        \A q \in Executions \ {p} : frame.proc[q].pc \in {"call", "done"}

\* The execution p moves to position to with the directory and the marker
\* as given.
Move(p, to, status, dir, marker) ==
    /\ frame' = [frame EXCEPT !.proc[p].pc = to,
                              !.proc[p].status = status,
                              !.dir = dir,
                              !.marker = marker]
    /\ UNCHANGED <<pc, calls, next_id, message, submission, downloaded,
                   submitted, gradebook, submission_logs, grade_result,
                   evaluated, invoked, new_submissions, feedback>>

\* engine.py:106-123: the user, the lesson and the notebook file are found;
\* _is_submission_newer reads timestamp.txt if it exists; the notebook is
\* valid.
Admit(p) ==
    /\ frame.proc[p].pc = "call"
    /\ MayStep(p)
    /\ IF \/ frame.marker = None
          \/ frame.proc[p].timestamp > parse(frame.marker[1])
       THEN Move(p, "admitted", RUNNING, frame.dir, frame.marker)
       ELSE Move(p, "done", SKIPPED, frame.dir, frame.marker)

\* engine.py:160-161: if os.path.exists(submitted_path): shutil.rmtree(...)
Clear(p) ==
    /\ frame.proc[p].pc = "admitted"
    /\ Move(p, "cleared", RUNNING, None, None)

\* engine.py:163: shutil.copytree raises FileExistsError when the
\* destination exists.
Copy(p) ==
    /\ frame.proc[p].pc = "cleared"
    /\ IF frame.dir # None
       THEN Move(p, "done", RAISED, frame.dir, frame.marker)
       ELSE Move(p, "copied", RUNNING, Some(StagedOf(p)), None)

\* engine.py:166-169: open(timestamp_path, "w") raises FileNotFoundError
\* when the directory is gone; otherwise timestamp.txt is (over)written.
Stamp(p) ==
    /\ frame.proc[p].pc = "copied"
    /\ IF frame.dir = None
       THEN Move(p, "done", RAISED, frame.dir, frame.marker)
       ELSE Move(p, "stamped", RUNNING, frame.dir,
                 Some(strftime(frame.proc[p].timestamp)))

\* engine.py:129-131 and 192-207: autograde works on the promoted
\* directory and cannot succeed without it; when it fails the directory is
\* removed if it exists and ERROR_GRADER_FAILED is returned.
Autograde(p) ==
    /\ frame.proc[p].pc = "stamped"
    /\ \E success \in BOOLEAN :
         /\ success => frame.dir # None
         /\ IF success
            THEN Move(p, "graded", RUNNING, frame.dir, frame.marker)
            ELSE Move(p, "done", ERROR_GRADER_FAILED, None, None)

\* engine.py:132-147: the grades are read, the feedback is generated, the
\* promoted notebook is read (open raises when it is gone) and the row is
\* logged.
Log(p) ==
    /\ frame.proc[p].pc = "graded"
    /\ IF \/ frame.dir = None
          \/ ipynb(Some(<<"L", "o">>)) \notin DOMAIN frame.dir[1]
       THEN Move(p, "done", RAISED, frame.dir, frame.marker)
       ELSE Move(p, "done", SUCCESS, frame.dir, frame.marker)

NextRace ==
    \E p \in Executions :
        \/ Admit(p)
        \/ Clear(p)
        \/ Copy(p)
        \/ Stamp(p)
        \/ Autograde(p)
        \/ Log(p)

SpecRace == InitRace /\ [][NextRace]_vars

\* No execution is between its call and its return.
Quiet == \A p \in Executions : frame.proc[p].pc \in {"call", "done"}
Ended(p, status) == frame.proc[p].pc = "done" /\ frame.proc[p].status = status
Newer(p, q) == frame.proc[p].timestamp > frame.proc[q].timestamp

\* The promoted directory holds the files and the marker of execution p.
PromotedOf(p) ==
    /\ frame.dir = Some(StagedOf(p))
    /\ frame.marker = Some(strftime(frame.proc[p].timestamp))

\* The freshness and promotion properties between two executions: none
\* raised; a promoted directory holds the files and the marker of one
\* successfully graded submission, and of no older one than another graded
\* submission; the copy of a graded submission is there unless a newer
\* submission failed in autograde.
PromotionInvariants ==
    /\ \A p \in Executions : ~Ended(p, RAISED)
    /\ (frame.dir = None) = (frame.marker = None)
    /\ frame.dir # None =>
           \E p \in Executions :
               /\ Ended(p, SUCCESS)
               /\ PromotedOf(p)
               /\ \A q \in Executions : Ended(q, SUCCESS) => ~Newer(q, p)
    /\ \A p \in Executions :
           /\ Ended(p, SUCCESS)
           /\ \A q \in Executions : Ended(q, ERROR_GRADER_FAILED) => ~Newer(q, p)
           => frame.dir # None

EmailSpellings ==
    { <<"t", "m">>, <<"T", "m">>, <<" ", "t", "m">>, <<"T", "m", " ">>,
      <<"e", "n">>, <<"E", "n">> }
LessonSpellings ==
    { <<"L", "o">>, <<"l", "O">>, <<"E", "m">>, <<"e", "m">>,
      <<"N", "o">>, <<"n", "O">> }

\* One new message in any of the spellings with the valid notebook of
\* lesson Lo attached.
FetchCase ==
    Fetch(EmailSpellings, LessonSpellings, WholeSeconds,
          {OneFile(ipynb(Some(<<"L", "o">>)), Notebook(<<"c1", "c2">>))}, 1)

NextCase ==
    \/ FetchCase
    \/ GradeSubmission
    \/ SendFeedback
    \/ MarkAsCompleted

SpecCase == Init /\ [][NextCase]_vars

\* The blanks around a text, stated on the text.
RECURSIVE Blanks(_)
Blanks(n) == IF n = 0 THEN << >> ELSE <<" ">> \o Blanks(n - 1)
Core(x) ==
    CHOOSE c \in {SubSeq(x, i, j) : i \in 1..(Len(x) + 1), j \in 0..Len(x)} :
        /\ \E a \in 0..Len(x), b \in 0..Len(x) : x = Blanks(a) \o c \o Blanks(b)
        /\ c # << >> => c[1] # " " /\ c[Len(c)] # " "

\* Two spellings of one name: equal up to letter case and blanks around.
SameSpelling(x, y) == EqualIgnoringCase(Core(x), Core(y))

\* C23: a submission whose sender address and lesson name are spelled in
\* another letter case (and with blanks around) than those of the fetched
\* message is resolved in the same state to the same user record and the
\* same lesson record, hence to the same (user, lesson) key, and gets the
\* same status.
C23_CaseInsensitiveResolution ==
    pc = "fetched" =>
        \A email \in EmailSpellings, lesson_name \in LessonSpellings :
            /\ SameSpelling(email, message[1].email)
            /\ SameSpelling(lesson_name, message[1].lesson_name)
            => LET other == Submission([message[1] EXCEPT
                                           !.email = email,
                                           !.lesson_name = lesson_name])
                   a == admission(submission[1])
                   b == admission(other)
               IN  /\ a.status = b.status
                   /\ a.user = b.user
                   /\ a.lesson = b.lesson
                   /\ a.notebook = b.notebook

\* C23 witness: a submission spelled "Tm " for lesson "lO" met the promoted
\* directory of the pair (mosby_ted, Lo) and was SKIPPED.
C23_Witness ==
    /\ ReturnedStatus(SKIPPED)
    /\ message[1].email = <<"T", "m", " ">>
    /\ message[1].lesson_name = <<"l", "O">>
    /\ grade_result[1].email = <<"t", "m">>
    /\ grade_result[1].lesson_name = Some(<<"L", "o">>)
    /\ submitted[<<"mosby_ted", <<"L", "o">>>>] # None
    /\ Len(submission_logs) = 1

\* ---------------------------------------------------------------- C24
\* One new message of the user with names or of the user added without
\* names, for lesson Lo, with the valid notebook.
FetchOfUser ==
    Fetch({u.email : u \in student}, {<<"L", "o">>}, WholeSeconds,
          {OneFile(ipynb(Some(<<"L", "o">>)), Notebook(<<"c1", "c2">>))}, 1)

NextUsers ==
    \/ FetchOfUser
    \/ FetchAgain
    \/ GradeSubmission
    \/ SendFeedback
    \/ MarkAsCompleted

SpecUsers == Init /\ [][NextUsers]_vars

\* An optional field that holds a non-empty value: an id or a name (a
\* string), a lesson name or a list of grades (a sequence).
Populated(field) == field \notin {None, Some("")}
PopulatedList(field) == field \notin {None, Some(<< >>)}

\* C24 as stated: every result grade_submission returns with SUCCESS has
\* student_id, first_name, last_name, lesson_name and task_grades
\* populated, and get_feedback accepts it.
C24_AsStated ==
    ReturnedStatus(SUCCESS) =>
        /\ Populated(grade_result[1].student_id)
        /\ Populated(grade_result[1].first_name)
        /\ Populated(grade_result[1].last_name)
        /\ PopulatedList(grade_result[1].lesson_name)
        /\ PopulatedList(grade_result[1].task_grades)
        /\ get_feedback(grade_result[1]) # Raised

\* ---------------------------------------------------------------- C25
\* A cell of a source notebook with nbgrader metadata, by its kind and its
\* position i (grade ids are unique in a notebook): "t" a markdown cell
\* "#### TODO: <name>", "m" another markdown cell, "g" a graded code cell,
\* "u" a code cell that is not graded.
Cell(kind, i) ==
    [cell_type |-> IF kind \in {"t", "m"} THEN "markdown" ELSE "code",
     todo |-> kind = "t",
     name |-> i,
     grade |-> kind = "g",
     grade_id |-> i]
Cells(kinds) == [i \in DOMAIN kinds |-> Cell(kinds[i], i)]

\* Source notebooks in which each task has one test cell: up to n tasks,
\* each a TODO cell with its test cell (a solution or text cell may lie
\* between them) or a TODO cell alone, behind cells that belong to no task.
TaskBlocks == { <<"t", "g">>, <<"t", "u", "g">>, <<"t", "m", "g">>, <<"t">> }
RECURSIVE TaskLists(_)
TaskLists(n) ==
    IF n = 0
    THEN { << >>, <<"g">>, <<"u">> }
    ELSE TaskLists(n - 1)
             \cup {l \o b : l \in TaskLists(n - 1), b \in TaskBlocks}

\* The grades the backend records for a graded cell.
Scores == { <<0, 10>>, <<5, 10>>, <<10, 10>> }
GradesOf(cells) ==
    [{cells[i].grade_id : i \in {j \in DOMAIN cells : cells[j].grade}} -> Scores]

\* The stores are those of Init; _get_submission_grades is about to run on
\* a source notebook and the grades the backend recorded for a submission.
InitGrades ==
    /\ pc = "idle"
    /\ calls = 0
    /\ next_id = 1
    /\ message = None
    /\ submission = None
    /\ downloaded = [i \in {} |-> EmptyDir]
    /\ submitted = [p \in Pairs |-> None]
    /\ gradebook = [p \in Pairs |-> None]
    /\ submission_logs = << >>
    /\ grade_result = None
    /\ evaluated = << >>
    /\ invoked = << >>
    /\ new_submissions = << >>
    /\ feedback = None
    /\ \E kinds \in TaskLists(MaxTasks) :
         \E grades \in GradesOf(Cells(kinds)) :
           frame = [at |-> "call",
                    cells |-> Cells(kinds),
                    grades |-> grades,
                    result |-> Raised]

\* self._get_submission_grades(lesson_, notebook_, user_)
GetSubmissionGrades ==
    /\ frame.at = "call"
    /\ frame' = [frame EXCEPT
                    !.at = "return",
                    !.result = graded_tasks(frame.grades,
                                    lesson_tasks_loop(frame.cells, 1, << >>,
                                                      None, << >>))]
    /\ UNCHANGED <<pc, calls, next_id, message, submission, downloaded,
                   submitted, gradebook, submission_logs, grade_result,
                   evaluated, invoked, new_submissions, feedback>>

NextGrades == GetSubmissionGrades

SpecGrades == InitGrades /\ [][NextGrades]_vars

\* The declared test cells of a notebook, stated on the notebook: the
\* positions of the graded code cells behind a TODO cell, in increasing
\* order, and for each the TODO cell it belongs to (the last one before it).
IsTodo(cells, i) == cells[i].cell_type = "markdown" /\ cells[i].todo
IsTest(cells, j) ==
    /\ cells[j].cell_type = "code" /\ cells[j].grade
    /\ \E i \in 1..(j - 1) : IsTodo(cells, i)
TestCells(cells) == {j \in DOMAIN cells : IsTest(cells, j)}
TaskCell(cells, j) ==
    CHOOSE i \in 1..(j - 1) :
        /\ IsTodo(cells, i)
        /\ \A k \in (i + 1)..(j - 1) : ~IsTodo(cells, k)
InOrder(S) ==
    CHOOSE f \in [1..Cardinality(S) -> S] :
        \A a, b \in 1..Cardinality(S) : a < b => f[a] < f[b]
RECURSIVE Total(_, _, _)
Total(S, grades, k) ==
    IF S = {}
    THEN 0
    ELSE LET c == CHOOSE x \in S : TRUE
         IN  grades[c][k] + Total(S \ {c}, grades, k)

\* C25: the task grades returned for a notebook list its declared tasks in
\* the order of the notebook, each with the name of its TODO cell and the
\* score and maximum the backend recorded for its test cell; the sums of
\* the scores and of the maxima are those of the backend over the declared
\* test cells.
C25_GradesJoinedInOrder ==
    frame.at = "return" =>
        LET cells == frame.cells
            tests == InOrder(TestCells(cells))
            ids == {cells[j].grade_id : j \in TestCells(cells)}
        IN  /\ frame.result # Raised
            /\ Len(frame.result[1]) = Len(tests)
            /\ \A k \in DOMAIN tests :
                   LET task == frame.result[1][k]
                   IN  /\ task.name = cells[TaskCell(cells, tests[k])].name
                       /\ task.test_cell = Some(cells[tests[k]].grade_id)
                       /\ task.score = frame.grades[cells[tests[k]].grade_id][1]
                       /\ task.max_score = frame.grades[cells[tests[k]].grade_id][2]
            /\ SumOf(frame.result[1], "score") = Total(ids, frame.grades, 1)
            /\ SumOf(frame.result[1], "max_score") = Total(ids, frame.grades, 2)

\* C25 witness: three tasks with the scores 10, 5 and 0 of 10 each gave
\* three task grades in that order, 15 of 30 in total.
C25_Witness ==
    /\ frame.at = "return"
    /\ frame.cells = Cells(<<"t", "g", "t", "g", "t", "g">>)
    /\ frame.grades = (2 :> <<10, 10>>) @@ (4 :> <<5, 10>>) @@ (6 :> <<0, 10>>)
    /\ frame.result # Raised
    /\ [k \in DOMAIN frame.result[1] |-> frame.result[1][k].score] = <<10, 5, 0>>
    /\ SumOf(frame.result[1], "score") = 15
    /\ SumOf(frame.result[1], "max_score") = 30

\* ======================================================================
\* repeat_request (exchanger/engine.py), the decorator of the Gmail calls
\* ======================================================================
\* The delay schedules in minutes: the list of the loop in
\* src/exchanger/engine.py and the default of time_delay in
\* src/src/jpgrader/exchanger/engine.py.  No call site passes time_delay.
ScheduleOfLoop == <<1, 5, 10, 15, 20>>
ScheduleByDefault == <<1, 2, 5, 10>>
Schedules == {ScheduleOfLoop, ScheduleByDefault}

\* sleep_time = timeout * 60
SecPerMin == 60

\* What one call of the wrapped function does: it returns, it raises one of
\* the connection errors the wrapper catches, or it raises another error.
Result == "result"
ConnectionError == "ConnectionError"
OtherError == "OtherError"
BuildConnectionError == "ConnectionError in _build_resource"
BuildOtherError == "OtherError in _build_resource"
Attempts == {Result, ConnectionError, OtherError}

\* A wrapped request is called.  `frame` holds the position of the wrapper,
\* the schedule, recreate_resource, the index k of the for loop, the number
\* of calls of the request, the sleeps taken, the error held; and for the
\* call of self._build_resource() in the handler (wrapped with
\* recreate_resource=False and the same schedule) its own loop index,
\* calls, sleeps and the number of rebuilt resources.
InitRetry ==
    /\ pc = "idle"
    /\ calls = 0
    /\ next_id = 1
    /\ message = None
    /\ submission = None
    /\ downloaded = [i \in {} |-> EmptyDir]
    /\ submitted = [p \in Pairs |-> None]
    /\ gradebook = [p \in Pairs |-> None]
    /\ submission_logs = << >>
    /\ grade_result = None
    /\ evaluated = << >>
    /\ invoked = << >>
    /\ new_submissions = << >>
    /\ feedback = None
    /\ \E delays \in Schedules, recreate_resource \in BOOLEAN :
           frame = [at |-> "try",
                    delays |-> delays,
                    recreate_resource |-> recreate_resource,
                    k |-> 1,
                    attempts |-> 0,
                    slept |-> << >>,
                    error |-> "",
                    build_k |-> 0,
                    build_attempts |-> 0,
                    build_slept |-> << >>,
                    rebuilt |-> 0]

RetryUnchanged ==
    UNCHANGED <<pc, calls, next_id, message, submission, downloaded,
                submitted, gradebook, submission_logs, grade_result,
                evaluated, invoked, new_submissions, feedback>>

\* Mutant: every sleep takes the first delay.
timeout_first(f) == f.delays[1]

\* for timeout in delays: the timeout of the current turn of the loop
timeout(f) == f.delays[f.k]

\* Mutant: the loop ends one turn early.
next_timeout_one_short(f) ==
    IF f.k + 1 < Len(f.delays)
    THEN [f EXCEPT !.at = "try", !.k = f.k + 1]
    ELSE [f EXCEPT !.at = "raised"]

\* The for loop takes the next timeout, or ends: raise error.
next_timeout(f) ==
    IF f.k < Len(f.delays)
    THEN [f EXCEPT !.at = "try", !.k = f.k + 1]
    ELSE [f EXCEPT !.at = "raised"]

\* Mutant: the except clause catches every exception.
is_caught_always(error) == TRUE

\* except (ConnectionError, TransportError, HttpError,
\*         requests.ConnectionError, socket.timeout) as err
is_caught(error) == error = ConnectionError

\* try: return func(self, *args, **kwargs); a connection error is caught
\* and held, any other exception leaves the wrapper.
Attempt ==
    /\ frame.at = "try"
    /\ \E outcome \in Attempts :
         frame' =
             CASE outcome = Result ->
                      [frame EXCEPT !.at = "returned",
                                    !.attempts = frame.attempts + 1]
               [] outcome # Result /\ is_caught(outcome) ->
                      [frame EXCEPT !.at = "sleep",
                                    !.attempts = frame.attempts + 1,
                                    !.error = outcome]
               [] outcome # Result /\ ~is_caught(outcome) ->
                      [frame EXCEPT !.at = "raised",
                                    !.attempts = frame.attempts + 1,
                                    !.error = outcome]
    /\ RetryUnchanged

\* Mutant: the resource is never rebuilt.
after_sleep_without_rebuild(f) == next_timeout(f)

\* if recreate_resource: self._gmail = self._build_resource()
after_sleep(f) ==
    IF f.recreate_resource
    THEN [f EXCEPT !.at = "build_try", !.build_k = 1]
    ELSE next_timeout(f)

\* time.sleep(timeout * 60); then the resource is rebuilt if
\* recreate_resource, else the loop goes on.
Sleep ==
    /\ frame.at = "sleep"
    /\ LET slept == [frame EXCEPT
                        !.slept = Append(frame.slept,
                                         timeout(frame) * SecPerMin)]
       IN  frame' = after_sleep(slept)
    /\ RetryUnchanged

\* self._gmail = self._build_resource(): one call of the function under
\* its own wrapper.  A result ends the handler and the outer loop goes on;
\* an error that is no connection error leaves both wrappers.
BuildAttempt ==
    /\ frame.at = "build_try"
    /\ \E outcome \in Attempts :
         LET tried == [frame EXCEPT !.build_attempts = frame.build_attempts + 1]
         IN  frame' =
                 CASE outcome = Result ->
                          next_timeout([tried EXCEPT !.rebuilt = frame.rebuilt + 1])
                   [] outcome = ConnectionError ->
                          [tried EXCEPT !.at = "build_sleep"]
                   [] outcome = OtherError ->
                          [tried EXCEPT !.at = "raised", !.error = BuildOtherError]
    /\ RetryUnchanged

\* Mutant: the handler of the outer wrapper holds the error of the rebuild
\* and the outer loop goes on.
build_gave_up_and_held(f) ==
    next_timeout([f EXCEPT !.error = BuildConnectionError])

\* raise error in the wrapper of _build_resource: nothing catches it in the
\* handler of the outer wrapper.
build_gave_up(f) == [f EXCEPT !.at = "raised", !.error = BuildConnectionError]

\* The sleep of the wrapper of _build_resource (no rebuild inside); when
\* its schedule is used up its error leaves the handler of the outer
\* wrapper, hence the outer wrapper.
BuildSleep ==
    /\ frame.at = "build_sleep"
    /\ LET slept == [frame EXCEPT
                        !.build_slept = Append(frame.build_slept,
                            frame.delays[frame.build_k] * SecPerMin)]
       IN  frame' = IF frame.build_k < Len(frame.delays)
                    THEN [slept EXCEPT !.at = "build_try",
                                       !.build_k = frame.build_k + 1]
                    ELSE build_gave_up(slept)
    /\ RetryUnchanged

NextRetry ==
    \/ Attempt
    \/ Sleep
    \/ BuildAttempt
    \/ BuildSleep

SpecRetry == InitRetry /\ [][NextRetry]_vars

\* Each call, sleep and rebuild ends.
SpecRetryLive == SpecRetry /\ WF_vars(NextRetry)

\* ---------------------------------------------------------------- C26
\* The wrapper has ended.
Ended_ == frame.at \in {"returned", "raised"}
\* The wrapper gave up: it raised the connection error of the request.
GaveUp == frame.at = "raised" /\ frame.error = ConnectionError
\* The handler of a failed attempt ends with a step to the next turn.
HandlerEnds ==
    \/ frame.at = "sleep" /\ ~frame.recreate_resource
    \/ frame.at = "build_try" /\ frame'.rebuilt = frame.rebuilt + 1

SleptBySchedule ==
    /\ Len(frame.slept) <= Len(frame.delays)
    /\ \A i \in DOMAIN frame.slept : frame.slept[i] = frame.delays[i] * SecPerMin

InitMain ==
    /\ pc = "idle"
    /\ calls = 0
    /\ next_id = 1
    /\ message = None
    /\ submission = None
    /\ downloaded = [i \in {} |-> EmptyDir]
    /\ submitted = [p \in Pairs |-> None]
    /\ gradebook = [p \in Pairs |-> None]
    /\ submission_logs = << >>
    /\ grade_result = None
    /\ evaluated = << >>
    /\ invoked = << >>
    /\ new_submissions = << >>
    /\ feedback = None
    /\ frame = [at |-> "loop", reports |-> << >>, raising |-> FALSE, stops |-> 0]

LoopUnchanged ==
    UNCHANGED <<calls, next_id, message, submission, downloaded, submitted,
                gradebook, submission_logs, grade_result, evaluated, invoked,
                new_submissions, feedback>>

\* fetch_new_submissions or mark_as_completed raises: the retries of a
\* Gmail request are used up, or Gmail answers with another error.
GmailRaises ==
    /\ \/ pc = "idle"
       \/ pc = "sent"
       \/ pc = "returned" /\ ~to_send(grade_result[1].status)
    /\ frame.at = "loop"
    /\ pc' = "failed"
    /\ LoopUnchanged /\ UNCHANGED frame

\* KeyboardInterrupt or SystemExit at any point of the loop.
Interrupt ==
    /\ pc \in {"idle", "fetched", "returned", "sent"}
    /\ frame.at = "loop"
    /\ pc' = "interrupted"
    /\ LoopUnchanged /\ UNCHANGED frame

\* except (KeyboardInterrupt, SystemExit): pass
Pass ==
    /\ pc = "interrupted"
    /\ frame.at = "loop"
    /\ frame' = [frame EXCEPT !.at = "finally"]
    /\ LoopUnchanged /\ UNCHANGED pc

\* except Exception: the report with the traceback is handed to
\* SMTPSender.send for TEACHER_EMAIL; send may raise (delivered false).
SendErrorReport ==
    /\ pc \in {"raised", "failed"}
    /\ frame.at = "loop"
    /\ \E delivered \in BOOLEAN :
         frame' = [frame EXCEPT
                      !.at = "finally",
                      !.reports = Append(frame.reports,
                                         [destination |-> "TEACHER_EMAIL",
                                          delivered |-> delivered]),
                      !.raising = ~delivered]
    /\ LoopUnchanged /\ UNCHANGED pc

\* Mutant: grader.stop() is the last statement of the handlers instead of
\* a finally clause.
finally_after_handlers(f) ==
    IF f.raising
    THEN [f EXCEPT !.at = "exit"]
    ELSE [f EXCEPT !.at = "exit", !.stops = f.stops + 1]

\* finally: grader.stop(); an exception of the handler goes on afterwards.
finally_(f) == [f EXCEPT !.at = "exit", !.stops = f.stops + 1]

Stop ==
    /\ frame.at = "finally"
    /\ frame' = finally_(frame)
    /\ LoopUnchanged /\ UNCHANGED pc

NextMain ==
    \/ FetchOfUser
    \/ GradeSubmission
    \/ SendFeedbackOrFail
    \/ MarkAsCompleted
    \/ GmailRaises
    \/ Interrupt
    \/ Pass
    \/ SendErrorReport
    \/ Stop

SpecMain == InitMain /\ [][NextMain]_vars

\* ---------------------------------------------------------------- C28
\* An exception other than KeyboardInterrupt/SystemExit ended the loop.
FatalError == pc \in {"raised", "failed"}

\* C28: when the loop has ended with an exception other than
\* KeyboardInterrupt/SystemExit, one error report for the teacher was
\* handed to the SMTP sender before the finally clause, and none after an
\* interrupt; on every way out of the try statement (interrupt, fatal
\* error with the report delivered, fatal error with the report failing)
\* grader.stop() was called exactly once, and never before.
C28_ReportAndStopOnce ==
    /\ [](frame.at \in {"finally", "exit"} /\ FatalError =>
              /\ Len(frame.reports) = 1
              /\ frame.reports[1].destination = "TEACHER_EMAIL")
    /\ [](pc = "interrupted" => frame.reports = << >>)
    /\ [](frame.at = "exit" => frame.stops = 1)
    /\ [](frame.at # "exit" => frame.stops = 0)
    /\ [][frame'.at = "exit" => frame.at = "finally"]_vars
    /\ [][frame.at = "loop" /\ frame'.at = "finally" =>
              FatalError \/ pc = "interrupted"]_vars

\* C28 witness: get_feedback or send_feedback failed, the error report
\* could not be delivered either, and grader.stop() was called once.
C28_Witness ==
    /\ pc = "failed"
    /\ frame.at = "exit"
    /\ Len(frame.reports) = 1
    /\ ~frame.reports[1].delivered
    /\ frame.stops = 1

\* ======================================================================
\* _get_lesson_tasks on its own (grader/engine.py:344-385)
\* ======================================================================
\* A cell of the notebook file: "x" is a markdown cell "#### TODO: <name>"
\* without nbgrader metadata, the other kinds are those of Cell.
CellKinds == {"t", "m", "g", "u", "x"}
FileCell(kind, i) ==
    [nbgrader |-> kind # "x",
     cell |-> Cell(IF kind = "x" THEN "t" ELSE kind, i)]
FileCells(kinds) == [i \in DOMAIN kinds |-> FileCell(kinds[i], i)]
Sources(n) == UNION {[1..k -> CellKinds] : k \in 0..n}

\* Mutant: cells are read whether or not they have nbgrader metadata.
every_cell(file_cells) ==
    [i \in DOMAIN file_cells |-> file_cells[i].cell]

\* nb_data = cell["metadata"].get("nbgrader"); if nb_data: ...
has_nbgrader(file_cell) == file_cell.nbgrader
nbgrader_cells(file_cells) ==
    LET kept == SelectSeq(file_cells, has_nbgrader)
    IN  [i \in DOMAIN kept |-> kept[i].cell]

InitTasks ==
    /\ pc = "idle"
    /\ calls = 0
    /\ next_id = 1
    /\ message = None
    /\ submission = None
    /\ downloaded = [i \in {} |-> EmptyDir]
    /\ submitted = [p \in Pairs |-> None]
    /\ gradebook = [p \in Pairs |-> None]
    /\ submission_logs = << >>
    /\ grade_result = None
    /\ evaluated = << >>
    /\ invoked = << >>
    /\ new_submissions = << >>
    /\ feedback = None
    /\ \E kinds \in Sources(MaxSource) :
         frame = [at |-> "call", source |-> FileCells(kinds), tasks |-> << >>]

\* self._get_lesson_tasks(lesson_name, notebook_name)
GetLessonTasks ==
    /\ frame.at = "call"
    /\ frame' = [frame EXCEPT
                    !.at = "return",
                    !.tasks = lesson_tasks_loop(nbgrader_cells(frame.source),
                                                1, << >>, None, << >>)]
    /\ UNCHANGED <<pc, calls, next_id, message, submission, downloaded,
                   submitted, gradebook, submission_logs, grade_result,
                   evaluated, invoked, new_submissions, feedback>>

NextTasks == GetLessonTasks

SpecTasks == InitTasks /\ [][NextTasks]_vars

\* ---------------------------------------------------------------- C29
\* The graded code cells of a notebook file that follow a task-name cell,
\* and the task-name cell each belongs to; named(src, i) says which cells
\* count as task-name cells.
TodoText(src, i) == src[i].cell.cell_type = "markdown" /\ src[i].cell.todo
TodoCell(src, i) == TodoText(src, i) /\ src[i].nbgrader
GradedCode(src, j) ==
    src[j].nbgrader /\ src[j].cell.cell_type = "code" /\ src[j].cell.grade
TestsOf(src, named(_, _)) ==
    {j \in DOMAIN src : GradedCode(src, j) /\ \E i \in 1..(j - 1) : named(src, i)}
NameCellOf(src, j, named(_, _)) ==
    CHOOSE i \in 1..(j - 1) :
        named(src, i) /\ \A k \in (i + 1)..(j - 1) : ~named(src, k)
TasksInOrder(src, tasks, named(_, _)) ==
    LET tests == InOrder(TestsOf(src, named))
    IN  /\ Len(tasks) = Len(tests)
        /\ \A k \in DOMAIN tests :
               /\ tasks[k].name = src[NameCellOf(src, tests[k], named)].cell.name
               /\ tasks[k].test_cell = Some(src[tests[k]].cell.grade_id)
        /\ \A a, b \in DOMAIN tasks :
               a # b => tasks[a].test_cell # tasks[b].test_cell

\* C29 as stated: for every notebook, with every markdown cell
\* "#### TODO: <name>" a task-name cell, the list has one Task per graded
\* code cell behind a task-name cell, in notebook order, with the name of
\* its task-name cell and its own test-cell identifier, no identifier twice.
C29_AsStated ==
    frame.at = "return" => TasksInOrder(frame.source, frame.tasks, TodoText)

\* No task has two test cells: a TODO cell lies between any test cell and
\* a later graded code cell.
OneTestCellPerTask(src) ==
    \A j \in TestsOf(src, TodoCell) :
        \A l \in (j + 1)..Len(src) :
            GradedCode(src, l) => \E k \in (j + 1)..(l - 1) : TodoCell(src, k)

\* C29: for a notebook in which no task has two test cells, with the task-
\* name cells being the TODO cells that have nbgrader metadata, the list
\* has one Task per graded code cell behind a task-name cell, in notebook
\* order, with the name of its task-name cell and its own test-cell
\* identifier, no identifier twice; hence a TODO cell without a graded code
\* cell behind it and a graded code cell before the first TODO cell give no
\* entry.
C29_OneTestCellPerTask ==
    frame.at = "return" /\ OneTestCellPerTask(frame.source) =>
        TasksInOrder(frame.source, frame.tasks, TodoCell)

\* C29 witness: a graded cell before the first TODO cell, a task with a
\* solution cell and a test cell, and a TODO cell without a test cell gave
\* the one Task of the second cell tested by the fourth.
C29_Witness ==
    /\ frame.at = "return"
    /\ frame.source = FileCells(<<"g", "t", "u", "g", "t">>)
    /\ OneTestCellPerTask(frame.source)
    /\ Len(frame.tasks) = 1
    /\ frame.tasks[1].name = 2
    /\ frame.tasks[1].test_cell = Some(4)

\* ======================================================================
\* slow_api_calls (exchanger/engine.py:38-58)
\* ======================================================================
\* min_latency: the default, and that of _get_new_messages.
DefaultLatency == 1
LatencyOfGetNewMessages == 5
Latencies == {DefaultLatency, LatencyOfGetNewMessages}

\* `frame` holds the clock (time.time(), in seconds), the attribute
\* _wrapper.last_call, and the locals of the call of _wrapper in progress.
\* The decorator has just been applied: _wrapper.last_call = time.time().
InitSlow ==
    /\ pc = "idle"
    /\ calls = 0
    /\ next_id = 1
    /\ message = None
    /\ submission = None
    /\ downloaded = [i \in {} |-> EmptyDir]
    /\ submitted = [p \in Pairs |-> None]
    /\ gradebook = [p \in Pairs |-> None]
    /\ submission_logs = << >>
    /\ grade_result = None
    /\ evaluated = << >>
    /\ invoked = << >>
    /\ new_submissions = << >>
    /\ feedback = None
    /\ \E min_latency \in Latencies :
         frame = [at |-> "out", min_latency |-> min_latency, now |-> 0,
                  last_call |-> 0, time_diff |-> 0, slept |-> 0, started |-> 0]

SlowUnchanged ==
    UNCHANGED <<pc, calls, next_id, message, submission, downloaded,
                submitted, gradebook, submission_logs, grade_result,
                evaluated, invoked, new_submissions, feedback>>

\* Time passes, between calls, between statements and while func runs.
Tick ==
    /\ frame.now < MaxClock
    /\ frame' = [frame EXCEPT !.now = frame.now + 1]
    /\ SlowUnchanged

\* time_diff = time.time() - _wrapper.last_call
Enter ==
    /\ frame.at = "out"
    /\ frame.now + frame.min_latency < MaxClock
    /\ frame' = [frame EXCEPT !.at = "entered",
                              !.time_diff = frame.now - frame.last_call,
                              !.slept = 0]
    /\ SlowUnchanged

\* Mutant: the wrapper sleeps for the time that has passed.
sleep_time_passed(f) ==
    IF f.time_diff < f.min_latency THEN f.time_diff ELSE 0

\* if time_diff < min_latency: time.sleep(min_latency - time_diff)
sleep_time(f) ==
    IF f.time_diff < f.min_latency THEN f.min_latency - f.time_diff ELSE 0

\* time.sleep returns after the time asked for, or somewhat later.
SleepIfEarly ==
    /\ frame.at = "entered"
    /\ \E late \in {0, 1} :
         /\ late = 1 => sleep_time(frame) > 0 /\ frame.now + sleep_time(frame) < MaxClock
         /\ frame' = [frame EXCEPT !.at = "awake",
                                   !.slept = sleep_time(frame),
                                   !.now = frame.now + sleep_time(frame) + late]
    /\ SlowUnchanged

\* _wrapper.last_call = time.time(); return func(*args, **kwargs)
CallFunc ==
    /\ frame.at = "awake"
    /\ frame' = [frame EXCEPT !.at = "func",
                              !.last_call = frame.now,
                              !.started = frame.started + 1]
    /\ SlowUnchanged

\* func returns or raises.
Leave ==
    /\ frame.at = "func"
    /\ frame' = [frame EXCEPT !.at = "out"]
    /\ SlowUnchanged

NextSlow ==
    \/ Tick
    \/ Enter
    \/ SleepIfEarly
    \/ CallFunc
    \/ Leave

SpecSlow == InitSlow /\ [][NextSlow]_vars

\* ---------------------------------------------------------------- C30
\* C30: the underlying function starts (the wrapper stamps last_call and
\* calls it) at least min_latency seconds after its previous start, and
\* the first time at least min_latency seconds after the decorator was
\* applied (time 0); a call that arrives min_latency seconds or more after
\* the previous start is not put to sleep.
C30_SpacedStarts ==
    /\ [][frame'.started # frame.started =>
              frame'.last_call - frame.last_call >= frame.min_latency]_vars
    /\ [](frame.started = 1 /\ frame.at = "func" =>
              frame.last_call >= frame.min_latency)
    /\ [](frame.at \in {"awake", "func"}
              /\ frame.time_diff >= frame.min_latency => frame.slept = 0)

\* C30 witness: _get_new_messages is called a second time one second
\* after its first start, sleeps four seconds and starts five seconds
\* after the first start.
C30_Witness ==
    /\ frame.min_latency = LatencyOfGetNewMessages
    /\ frame.at = "func"
    /\ frame.started = 2
    /\ frame.time_diff = 1
    /\ frame.slept = 4
    /\ frame.last_call = 10

\* ---------------------------------------------------------------- C34
\* The attempt of this step raised an exception the wrapper does not catch.
RaisesOther == frame.at = "try" /\ frame'.error = OtherError

\* C34: an attempt that raises an exception other than the connection
\* errors ends the wrapper with that exception at once, on whichever turn
\* of the loop it happens: that step sleeps nothing and rebuilds nothing,
\* and no attempt, sleep or rebuild follows it.
C34_OtherErrorPropagates ==
    /\ [][RaisesOther =>
              /\ frame'.at = "raised"
              /\ frame'.attempts = frame.attempts + 1
              /\ frame'.slept = frame.slept
              /\ frame'.build_attempts = frame.build_attempts
              /\ frame'.rebuilt = frame.rebuilt]_vars
    /\ [](frame.error = OtherError =>
              /\ frame.at = "raised"
              /\ Len(frame.slept) = frame.attempts - 1)
    /\ [][frame.error = OtherError => frame' = frame]_vars

\* C34 witness: two attempts failed with connection errors and were slept
\* after, the third raised another exception, which left the wrapper.
C34_Witness ==
    /\ frame.at = "raised"
    /\ frame.error = OtherError
    /\ frame.attempts = 3
    /\ Len(frame.slept) = 2
    /\ frame.attempts < Len(frame.delays)

\* ---------------------------------------------------------------- C35
\* The wrapper of _build_resource gives up in this step: its last delay is
\* slept and its connection error raised.
RebuildGivesUp ==
    frame.at = "build_sleep" /\ frame.build_k = Len(frame.delays)

\* C35: when the rebuild in the handler gives up, the outer call raises the
\* error of the rebuild in that step and makes none of its remaining
\* attempts; a rebuild happens only with recreate_resource, and its own
\* wrapper rebuilds nothing; the request is attempted at most as often as
\* the schedule has delays, _build_resource at most the square of that.
C35_RebuildFailureEndsCall ==
    /\ [][RebuildGivesUp =>
              /\ frame'.at = "raised"
              /\ frame'.error = BuildConnectionError
              /\ frame'.attempts = frame.attempts]_vars
    /\ [][frame.error = BuildConnectionError => frame' = frame]_vars
    /\ [](frame.error = BuildConnectionError =>
              /\ frame.at = "raised"
              /\ frame.recreate_resource
              /\ frame.attempts = frame.k)
    /\ [](frame.build_attempts > 0 => frame.recreate_resource)
    /\ [](frame.attempts <= Len(frame.delays))
    /\ [](frame.build_attempts <= Len(frame.delays) * Len(frame.delays))

\* C35 witness: the first attempt failed, every call of _build_resource in
\* its handler failed too, and the call ended with the error of the rebuild
\* after one attempt of five.
C35_Witness ==
    /\ frame.at = "raised"
    /\ frame.error = BuildConnectionError
    /\ frame.delays = ScheduleOfLoop
    /\ frame.attempts = 1
    /\ frame.build_attempts = Len(ScheduleOfLoop)
    /\ frame.rebuilt = 0

OrderedSeconds == {sec * MsPerSec : sec \in 0..MaxOrdered}
\* The valid notebook of lesson Lo, alone and with a data file.
ValidDirs ==
    { OneFile(ipynb(Some(<<"L", "o">>)), Notebook(<<"c1", "c2">>)),
      WithData(OneFile(ipynb(Some(<<"L", "o">>)), Notebook(<<"c1", "c2">>))) }

\* Batches of up to MaxOrdered messages of the known user for lesson Lo
\* with pairwise distinct timestamps, in every order.
OrderedBatches ==
    UNION { { [i \in 1..n |->
                 [submission_id |-> i, email |-> <<"t", "m">>,
                  lesson_name |-> <<"L", "o">>, timestamp |-> ts[i],
                  files |-> fs[i]]] :
              ts \in {t \in [1..n -> OrderedSeconds] :
                         \A i, j \in 1..n : i # j => t[i] # t[j]},
              fs \in [1..n -> ValidDirs] } : n \in 1..MaxOrdered }

\* The stores are empty and the batch in `frame` is unread in the inbox.
InitOrdered ==
    /\ pc = "idle"
    /\ calls = 0
    /\ next_id = 1
    /\ message = None
    /\ submission = None
    /\ downloaded = [i \in {} |-> EmptyDir]
    /\ submitted = [p \in Pairs |-> None]
    /\ gradebook = [p \in Pairs |-> None]
    /\ submission_logs = << >>
    /\ grade_result = None
    /\ evaluated = << >>
    /\ invoked = << >>
    /\ new_submissions = << >>
    /\ feedback = None
    /\ \E batch \in OrderedBatches : frame = [at |-> "inbox", batch |-> batch]

\* new_submissions = exchanger.fetch_new_submissions(): the whole batch, in
\* the order Gmail lists the messages.
FetchOrdered ==
    /\ pc = "idle"
    /\ calls = 0
    /\ next_id' = next_id + Len(frame.batch)
    /\ Deliver(Head(frame.batch), Tail(frame.batch))

\* grade_submission of a submission that passes validation and grading:
\* no exception, and no status other than SUCCESS and SKIPPED.
GradeSubmissionPassing ==
    /\ GradeSubmission
    /\ pc' = "returned"
    /\ grade_result'[1].status \in {SUCCESS, SKIPPED}

NextOrdered ==
    \/ FetchOrdered
    \/ GradeSubmissionPassing
    \/ SendFeedback
    \/ MarkAsCompleted

SpecOrdered == InitOrdered /\ [][NextOrdered]_vars

\* ---------------------------------------------------------------- C31
\* The number of submissions of the batch grade_submission has returned for.
Processed ==
    IF pc \in {"returned", "sent"} THEN calls
    ELSE IF pc = "fetched" THEN calls - 1
    ELSE calls
\* The submission with the greatest timestamp among the first n of the batch.
Latest(n) ==
    CHOOSE i \in 1..n :
        \A j \in 1..n : frame.batch[j].timestamp <= frame.batch[i].timestamp
TedAndLo == <<"mosby_ted", <<"L", "o">>>>

\* C31: for a batch of one pair with pairwise distinct whole-second
\* timestamps in which everything passes validation and grading, in
\* whatever order it is processed: a submission gets SUCCESS when its
\* timestamp is greater than that of every submission processed before it
\* and SKIPPED otherwise; and after each submission, hence after the batch,
\* the promoted copy and its marker are those of the submission with the
\* greatest timestamp so far.
C31_LatestWinsInAnyOrder ==
    /\ pc = "returned" =>
           LET i == calls
           IN  grade_result[1].status =
                   IF \A j \in 1..(i - 1) :
                          frame.batch[j].timestamp < frame.batch[i].timestamp
                   THEN SUCCESS ELSE SKIPPED
    /\ Processed > 0 =>
           LET last == frame.batch[Latest(Processed)]
           IN  submitted[TedAndLo] =
                   Some([files |-> last.files,
                         timestamp_txt |-> strftime(last.timestamp)])

\* C31 witness: the submissions of the seconds 1, 2 and 0 were processed in
\* that order; two were graded, the third skipped, and the promoted copy
\* is that of the second, which came with a data file.
C31_Witness ==
    /\ pc = "idle"
    /\ calls = 3
    /\ [i \in 1..3 |-> frame.batch[i].timestamp] = <<1000, 2000, 0>>
    /\ Len(submission_logs) = 2
    /\ submitted[TedAndLo] # None
    /\ submitted[TedAndLo][1].timestamp_txt.seconds = 2
    /\ <<"d", ".csv">> \in DOMAIN submitted[TedAndLo][1].files
    /\ <<"d", ".csv">> \notin DOMAIN frame.batch[3].files

\* ======================================================================
\* Submissions of two users (grader/engine.py:49-147)
\* ======================================================================
\* The senders: the two users of the table, the first also in another
\* letter case, and a stranger.
PairEmails == { <<"t", "m">>, <<"T", "m">>, <<"r", "r">>, <<"z", "z">> }
\* The lessons of the subject: Lo, also in another letter case, the lesson
\* without notebooks, and a name of no lesson.
PairLessons == { <<"L", "o">>, <<"l", "O">>, <<"E", "m">>, <<"N", "o">> }
\* Attachment trees: nothing, the valid notebook, text that is not JSON,
\* JSON that is no notebook.
PairDirs ==
    { EmptyDir,
      OneFile(ipynb(Some(<<"L", "o">>)), Notebook(<<"c1", "c2">>)),
      OneFile(ipynb(Some(<<"L", "o">>)), Malformed),
      OneFile(ipynb(Some(<<"L", "o">>)), NotANotebook) }

\* One new message of one of the senders is fetched.
FetchOfPairs == Fetch(PairEmails, PairLessons, WholeSeconds, PairDirs, 1)

NextPairs ==
    \/ FetchOfPairs
    \/ GradeSubmission
    \/ SendFeedback
    \/ MarkAsCompleted
    \/ Restart

SpecPairs == Init /\ [][NextPairs]_vars

\* ---------------------------------------------------------------- C32
\* grade_submission returns a rejection in this step.
Rejects ==
    /\ pc = "fetched"
    /\ pc' = "returned"
    /\ grade_result'[1].status \in Rejections

\* C32: a call of grade_submission that returns a status of the admission
\* phase leaves the promoted directory and the marker of every pair, the
\* ledger and the backend's records as they were; of the staged
\* directories it removes that of the submission and no other.
C32_RejectionChangesNothingElse ==
    [][Rejects =>
          /\ \A p \in Pairs : submitted'[p] = submitted[p]
          /\ \A p \in Pairs : gradebook'[p] = gradebook[p]
          /\ submission_logs' = submission_logs
          /\ submission[1].file_path \in DOMAIN downloaded
          /\ DOMAIN downloaded' = DOMAIN downloaded \ {submission[1].file_path}
          /\ \A i \in DOMAIN downloaded' : downloaded'[i] = downloaded[i]
    ]_vars

\* C32 witness: both users have a promoted and logged submission of lesson
\* Lo; a further submission was rejected as SKIPPED, its own staged
\* directory is gone and the rest is there.
C32_Witness ==
    /\ ReturnedStatus(SKIPPED)
    /\ \A u \in UserIds : submitted[<<u, <<"L", "o">>>>] # None
    /\ \A u \in UserIds : gradebook[<<u, <<"L", "o">>>>] # None
    /\ Len(submission_logs) = 2
    /\ submission[1].file_path \notin DOMAIN downloaded

\* ---------------------------------------------------------------- C33
\* C33: in every GradeResult returned, student_id is unset exactly when the
\* status is ERROR_USERNAME_IS_ABSENT, and otherwise it and the names are
\* those of the user's row; lesson_name is unset exactly when the status
\* is ERROR_USERNAME_IS_ABSENT or ERROR_LESSON_IS_ABSENT, and otherwise it
\* is the stored name; submission_id and timestamp are the submission's;
\* the email is the stored one of the user when a user was resolved.
C33_ResultFieldsByStatus ==
    pc = "returned" =>
        LET r == grade_result[1]
            m == message[1]
        IN  /\ r.student_id = None <=> r.status = ERROR_USERNAME_IS_ABSENT
            /\ r.student_id = None => r.first_name = None /\ r.last_name = None
            /\ r.student_id # None =>
                   /\ r.student_id = Some(TheUser(m).id)
                   /\ r.first_name = Some(TheUser(m).first_name)
                   /\ r.last_name = Some(TheUser(m).last_name)
                   /\ r.email = TheUser(m).email
            /\ r.lesson_name = None <=>
                   r.status \in {ERROR_USERNAME_IS_ABSENT, ERROR_LESSON_IS_ABSENT}
            /\ r.lesson_name # None => r.lesson_name = Some(TheLesson(m).name)
            /\ r.submission_id = submission[1].submission_id
            /\ r.submission_id = m.submission_id
            /\ r.timestamp = m.timestamp

\* C33 witness: the first user wrote from "Tm" about the lesson "lO" with an
\* empty attachment tree: the result names the user and the lesson as
\* stored, with the status ERROR_NO_CORRECT_FILES.
C33_Witness ==
    /\ ReturnedStatus(ERROR_NO_CORRECT_FILES)
    /\ message[1].email = <<"T", "m">>
    /\ message[1].lesson_name = <<"l", "O">>
    /\ grade_result[1].email = <<"t", "m">>
    /\ grade_result[1].student_id = Some("mosby_ted")
    /\ grade_result[1].first_name = Some("Ted")
    /\ grade_result[1].lesson_name = Some(<<"L", "o">>)

\* ======================================================================
\* GDrivePublisher.sync (publisher/engine.py)
\* ======================================================================
\* A file with the md5 checksum of its content, or a folder with its
\* entries by name; Google Drive reports no md5Checksum for a folder.
NoEntries == [n \in {} |-> 0]
File(md5) == [kind |-> "file", md5 |-> Some(md5), entries |-> NoEntries]
Folder(entries) == [kind |-> "folder", md5 |-> None, entries |-> entries]

\* The names an entry may have, and the trees over them: a folder whose
\* entries are files and folders of files.
EntryNames == {"a", "b"}
Contents == 1..MaxVersions
Listings(nodes) == UNION {[D -> nodes] : D \in SUBSET EntryNames}
Files == {File(c) : c \in Contents}
Entries == Files \cup {Folder(e) : e \in Listings(Files)}
Trees == {Folder(e) : e \in Listings(Entries)}

\* The orders in which a loop over a set of names may take them.
Orders == { <<"a", "b">>, <<"b", "a">> }

\* The local folder (after _sanitize_local_folder) and the cloud folder of
\* its name that exists under the parent; no sync has run.
InitSync ==
    /\ pc = "idle"
    /\ calls = 0
    /\ next_id = 1
    /\ message = None
    /\ submission = None
    /\ downloaded = [i \in {} |-> EmptyDir]
    /\ submitted = [p \in Pairs |-> None]
    /\ gradebook = [p \in Pairs |-> None]
    /\ submission_logs = << >>
    /\ grade_result = None
    /\ evaluated = << >>
    /\ invoked = << >>
    /\ new_submissions = << >>
    /\ feedback = None
    /\ \E local \in Trees, cloud \in Trees, shared \in BOOLEAN :
         frame = [at |-> "call", local |-> local, cloud |-> cloud,
                  shared |-> shared, syncs |-> 0,
                  uploads |-> 0, updates |-> 0, deletes |-> 0, shares |-> 0]

\* The objects _upload_local_obj creates for a local file or folder.
RECURSIVE Created(_)
Created(local) ==
    IF DOMAIN local.entries = {}
    THEN 1
    ELSE LET n == CHOOSE x \in DOMAIN local.entries : TRUE
             rest == [m \in DOMAIN local.entries \ {n} |-> local.entries[m]]
         IN  Created(local.entries[n]) + Created([local EXCEPT !.entries = rest])

\* Mutant: a common file is uploaded again whatever its checksum.
md5_differs_always(cloud_md5, local_md5) == TRUE

\* c_file["md5Checksum"] != self._get_md5_hash(path_local_obj)
md5_differs(cloud_md5, local_md5) == cloud_md5 # local_md5

\* _update_cloud_obj(cloud_obj_id, path_local_obj) on the run r, whose
\* field node is the cloud object: the state of the cloud object after it,
\* the requests made, and whether an exception ended it.
RECURSIVE _update_cloud_obj(_, _, _)
RECURSIVE update_common(_, _, _, _)
_update_cloud_obj(r, local, order) ==
    IF local.kind = "file"
    THEN IF r.node.md5 = None
         THEN \* KeyError: the cloud object is a folder
              [r EXCEPT !.raised = TRUE]
         ELSE IF md5_differs(r.node.md5, local.md5)
         THEN [r EXCEPT !.node = File(local.md5[1]), !.updates = r.updates + 1]
         ELSE r
    ELSE LET cloud_names == DOMAIN r.node.entries
             local_names == DOMAIN local.entries
             isCommon(n) == n \in cloud_names \cap local_names
             updated == update_common(r, local, SelectSeq(order, isCommon), order)
             drops == cloud_names \ local_names
             dropped ==
                 IF updated.raised
                 THEN updated
                 ELSE [updated EXCEPT
                          !.node.entries = [n \in DOMAIN updated.node.entries \ drops
                                               |-> updated.node.entries[n]],
                          !.deletes = updated.deletes + Cardinality(drops)]
             adds == local_names \ cloud_names
             uploaded == Created([local EXCEPT
                                     !.entries = [n \in adds |-> local.entries[n]]]) - 1
         IN  IF dropped.raised \/ adds = {}
             THEN dropped
             ELSE IF dropped.node.kind = "file"
             THEN \* HttpError: the parent of an upload is no folder
                  [dropped EXCEPT !.raised = TRUE]
             ELSE [dropped EXCEPT
                      !.node.entries = [n \in DOMAIN dropped.node.entries \cup adds |->
                                           IF n \in adds THEN local.entries[n]
                                           ELSE dropped.node.entries[n]],
                      !.uploads = dropped.uploads + uploaded]

\* for common in cloud_names.intersection(local_names): ...
update_common(r, local, names, order) ==
    IF names = << >> \/ r.raised
    THEN r
    ELSE LET n == Head(names)
             sub == _update_cloud_obj([r EXCEPT !.node = r.node.entries[n]],
                                      local.entries[n], order)
         IN  update_common([sub EXCEPT !.node = [r.node EXCEPT !.entries[n] = sub.node]],
                           local, Tail(names), order)

\* publisher.sync(local_obj, cloud_folder_path): the cloud object exists,
\* it is updated and, unless shared already, shared.
Sync ==
    /\ frame.at \in {"call", "return"}
    /\ frame.syncs < 2
    /\ \E order \in Orders :
         LET r == _update_cloud_obj([node |-> frame.cloud, uploads |-> 0,
                                     updates |-> 0, deletes |-> 0,
                                     raised |-> FALSE],
                                    frame.local, order)
         IN  frame' = [frame EXCEPT
                          !.at = IF r.raised THEN "raised" ELSE "return",
                          !.cloud = r.node,
                          !.syncs = frame.syncs + 1,
                          !.uploads = r.uploads,
                          !.updates = r.updates,
                          !.deletes = r.deletes,
                          !.shares = IF r.raised \/ frame.shared THEN 0 ELSE 1,
                          !.shared = frame.shared \/ ~r.raised]
    /\ UNCHANGED <<pc, calls, next_id, message, submission, downloaded,
                   submitted, gradebook, submission_logs, grade_result,
                   evaluated, invoked, new_submissions, feedback>>

NextSync == Sync

SpecSync == InitSync /\ [][NextSync]_vars

\* ---------------------------------------------------------------- C37
\* At every level the cloud folder has the names of the local one, files
\* for files with the same checksum and folders for folders.
RECURSIVE Mirrors(_, _)
Mirrors(cloud, local) ==
    /\ DOMAIN cloud.entries = DOMAIN local.entries
    /\ \A n \in DOMAIN local.entries :
           IF local.entries[n].kind = "file"
           THEN cloud.entries[n] = local.entries[n]
           ELSE Mirrors(cloud.entries[n], local.entries[n])
\* The same name is a file on one side and a folder on the other.
RECURSIVE KindsDiffer(_, _)
KindsDiffer(cloud, local) ==
    \E n \in DOMAIN cloud.entries \cap DOMAIN local.entries :
        \/ cloud.entries[n].kind # local.entries[n].kind
        \/ KindsDiffer(cloud.entries[n], local.entries[n])
NoRequests == frame.uploads = 0 /\ frame.updates = 0 /\ frame.deletes = 0

\* C37 as stated: every sync of a local folder onto the existing cloud
\* folder ends with the cloud folder mirroring the local one at every
\* level, and a second sync of the unchanged local folder makes no upload,
\* update or delete.
C37_AsStated ==
    /\ frame.at # "raised"
    /\ frame.at = "return" => Mirrors(frame.cloud, frame.local)
    /\ frame.at = "return" /\ frame.syncs = 2 => NoRequests

\* C37 where it holds: when no name is a file on one side and a folder on
\* the other, the sync returns, the cloud folder then mirrors the local one
\* at every level, a file is uploaded again only when the checksums
\* differed, and the second sync makes no upload, update or delete.
C37_MirrorWhenKindsAgree ==
    [][~KindsDiffer(frame.cloud, frame.local) =>
          /\ frame'.at = "return"
          /\ Mirrors(frame'.cloud, frame.local)
          /\ frame'.updates =
                 Cardinality({n \in DOMAIN frame.cloud.entries \cap DOMAIN frame.local.entries :
                                 /\ frame.local.entries[n].kind = "file"
                                 /\ frame.cloud.entries[n] # frame.local.entries[n]})
                 + Cardinality({p \in EntryNames \X EntryNames :
                                 /\ p[1] \in DOMAIN frame.cloud.entries \cap DOMAIN frame.local.entries
                                 /\ frame.local.entries[p[1]].kind = "folder"
                                 /\ p[2] \in DOMAIN frame.cloud.entries[p[1]].entries
                                                \cap DOMAIN frame.local.entries[p[1]].entries
                                 /\ frame.cloud.entries[p[1]].entries[p[2]]
                                        # frame.local.entries[p[1]].entries[p[2]]})
          /\ frame.syncs = 1 => frame'.uploads = 0 /\ frame'.updates = 0 /\ frame'.deletes = 0
    ]_vars

\* C37 witness: the cloud folder had a changed file, a folder with an
\* entry the local folder lacks, the sync updated the one and removed the
\* other, and the second sync made no request.
C37_Witness ==
    /\ frame.at = "return"
    /\ frame.syncs = 2
    /\ NoRequests
    /\ Mirrors(frame.cloud, frame.local)
    /\ frame.local = Folder([n \in {"a", "b"} |->
                                IF n = "a" THEN File(1)
                                ELSE Folder([m \in {"a"} |-> File(2)])])

====
